---- MODULE Spec2Model ----
(***************************************************************************)
(* NanoStatus: the monitor store, the HTTP API handlers that write it, the *)
(* probe executor (checkService) and the gocron-backed MonitorScheduler.   *)
(*                                                                         *)
(* Time is counted in minutes.  A url is a sequence of tokens: a scheme    *)
(* prefix ("http://", "https://", "ping://") followed by host tokens; the  *)
(* host token "%zz" is one url.Parse rejects (an invalid escape).          *)
(* A float64 percentage is kept in hundredths of a percent.                *)
(***************************************************************************)
EXTENDS Integers, Sequences, FiniteSets, TLC

\* ---- bounds of the model
MaxMonitors == 1
MaxProbes == 2
SchedProbes == 1
MaxSamples == 2
MaxAdvance == 1
MaxJobs == 2
MaxPuts == 1
MaxCasts == 3
MaxClients == 2
MaxRemoves == 2
MaxCallbacks == 2
MaxRuns == 1
MaxSyncs == 2
\* the capacity of a subscriber's channel; make(chan []byte, 256) in the
\* source, scaled down so that a full queue is within reach
QueueCap == 1

\* ---- program constants
DefaultInterval == 60
Minute == 1
TwentyFourHours == 1440
PingResponseTime == 10
MinInterval == 10
MaxInterval == 3600
Hour == 60
SevenDays == 10080
OneYear == 525600

VARIABLES
    monitors,    \* table monitors: id -> row (the domain is the set of stored ids)
    nextID,      \* next AUTOINCREMENT id of table monitors
    histories,   \* table check_histories, in insertion order
    now,         \* the wall clock, in minutes
    advances,    \* how often the clock has advanced
    probes,      \* checkService goroutines: slot -> local state
    puts,        \* PUT /api/monitor requests between db.First and db.Save
    jobs,        \* MonitorScheduler.jobs: monitor id -> job id
    intervals,   \* MonitorScheduler.intervals: monitor id -> seconds
    registered,  \* the jobs gocron holds: records [id, mon, interval]
    nextJob,     \* next job id gocron hands out
    ref,         \* the refreshScheduler goroutine
    dirty,       \* history: an API request wrote table monitors during the pass
    lastProbe,   \* history: monitor id -> the `now` of its latest probe patch
    subscribing, \* whether any browser connects to /api/events in this run
    casts,       \* broadcastMessage goroutines started and not yet returned
    castSeq,     \* history: the number of broadcastUpdate calls so far
    clients,     \* SSEBroadcaster.clients: the ids of the connected clients
    nextClient,  \* the next client id (RemoteAddr and UnixNano: never reused)
    queues,      \* client id -> the messages on its Send channel, oldest first
    timer,       \* statsDebouncer: "off" or "armed"
    callbacks,   \* the running callbacks of the debounce timer: slot -> state
    lastStats,   \* lastStats: the stats recorded as last published
    published,   \* history: the stats_update publications: [n, last, repeat]
    buckets,     \* table check_history_buckets: <<monitor_id, bucket_hour>> -> row
    retention,   \* the daily cleanup job: its position and local variables
    yaml,        \* monitors.yaml: whether it exists, and its entries
    sync,        \* syncYAMLConfig: its position and local variables
    posts,       \* the monitors whose create handler has not yet published monitor_added
    reply,       \* the last API request answered and its status code
    debounce,    \* debounceMu, statsDebouncer, the timers made and the callers' positions
    chans,       \* the Send channels closed, the removeClient calls made, the panics raised
    locks        \* MonitorScheduler.mu and the goroutines inside the scheduler's functions

vars == <<monitors, nextID, histories, now, advances, probes, puts,
          jobs, intervals, registered, nextJob, ref, dirty, lastProbe,
          subscribing, casts, castSeq, clients, nextClient, queues,
          timer, callbacks, lastStats, published, buckets, retention,
          yaml, sync, posts, reply, debounce, chans, locks>>

storeVars == <<monitors, nextID, histories>>
clockVars == <<now, advances>>
schedVars == <<jobs, intervals, registered, nextJob, ref, dirty>>
mapVars == <<jobs, intervals, registered, nextJob, ref>>
clientVars == <<clients, nextClient, queues>>
sseVars == <<subscribing, casts, castSeq, clients, nextClient, queues>>
statsVars == <<timer, callbacks, lastStats, published>>
busVars == <<sseVars, statsVars>>
retVars == <<buckets, retention>>
syncVars == <<yaml, sync>>
bgVars == <<retVars, syncVars, posts, reply, debounce, chans, locks>>

\* an API write that lands while a refreshScheduler pass is under way
Written == ref.pc # "idle"

\* ---- helpers on partial functions
Put(f, k, v) == [x \in DOMAIN f \cup {k} |-> IF x = k THEN v ELSE f[x]]
Drop(f, k) == [x \in DOMAIN f \ {k} |-> f[x]]

\* ---- strings.HasPrefix on token sequences
HasPrefix(s, p) == Len(s) >= 1 /\ s[1] = p

Schemes == {"http://", "https://", "ping://"}

\* url.Parse: the error, and the Host of the parsed url
ParseErr(s) == \E i \in 1..Len(s) : s[i] = "%zz"
ParseScheme(s) == IF Len(s) >= 1 /\ s[1] \in Schemes THEN s[1] ELSE ""
ParseHost(s) == IF Len(s) >= 1 /\ s[1] \in Schemes THEN Tail(s) ELSE s

\* ---- rows
NewMonitor(name, url, tp, icon, ci, paused, hash, t) ==
    [name |-> name, url |-> url, uptime |-> 0, status |-> "unknown",
     response_time |-> 0, last_check |-> <<0, "never">>,
     is_third_party |-> tp, icon |-> icon, check_interval |-> ci,
     paused |-> paused, config_hash |-> hash,
     created_at |-> t, updated_at |-> t]

IdleProbe ==
    [pc |-> "idle", mon |-> 0, url |-> <<>>, updated_at |-> 0,
     status |-> "", rt |-> 0, requested |-> FALSE, code |-> 0,
     created_at |-> 0, now |-> 0, last_check |-> <<0, "">>, uptime |-> 0]

IdlePut == [pc |-> "idle", id |-> 0, monitor |-> <<>>]

IdleRef == [pc |-> "idle", list |-> <<>>, idx |-> 0, active |-> {},
            mon |-> 0, interval |-> 0, old |-> 0]

\* an API request: its method, its id query parameter and its body as
\* json.Unmarshal sees it ("garbage": not JSON; "pause": an object with a
\* paused member; "edit": any other object)
Request(method, id, body) == [method |-> method, id |-> id, body |-> body]
Body(kind, paused, name, url, ci) ==
    [kind |-> kind, paused |-> paused, name |-> name, url |-> url, checkInterval |-> ci]
NoReply == [req |-> Request("", "", Body("", FALSE, "", <<>>, 0)), code |-> 0]

\* ---- go checkService(...): the goroutine takes the lowest free slot
FreeSlots == {s \in DOMAIN probes : probes[s].pc = "idle"}
LowestFree == CHOOSE s \in FreeSlots : \A t \in FreeSlots : s <= t
Spawn(m) == [probes EXCEPT ![LowestFree] = [IdleProbe EXCEPT !.pc = "spawned", !.mon = m]]

\* ---- gorm db.Save: UPDATE of every column by primary key with updated_at
\* set; when no row matched, INSERT ... ON CONFLICT DO UPDATE
Save(id, row) == Put(monitors, id, [row EXCEPT !.updated_at = now])

\* the check interval a create or a full edit stores
StoredInterval(ci) == IF ci <= 0 THEN DefaultInterval ELSE ci

\* ---- the event bus (stats.go) ----------------------------------------------

\* the message of the next broadcastUpdate call; seq orders the calls
Message(type, m) == [seq |-> castSeq + 1, type |-> type, mon |-> m]

\* broadcastUpdate lines 192-205: go sseBroadcaster.broadcastMessage(jsonData).
\* broadcastMessage returns at once when no client is connected (lines
\* 170-174), so in a run without subscribers the goroutine is left out.
BroadcastUpdate(type, m) ==
    /\ subscribing => castSeq < MaxCasts
    /\ casts' = IF subscribing
                THEN casts \cup {[msg |-> Message(type, m), pc |-> "spawned",
                                  rest |-> {}, sent |-> {}, dropped |-> {}]}
                ELSE casts
    /\ castSeq' = IF subscribing THEN castSeq + 1 ELSE castSeq

\* broadcastStatsIfChanged lines 208-218: statsDebouncer.Stop(), then
\* time.AfterFunc(500 ms, ...)
ArmTimer == timer' = "armed"

\* broadcastUpdate(type, ...) followed by broadcastStatsIfChanged()
Emit(type, m) ==
    /\ BroadcastUpdate(type, m)
    /\ ArmTimer
    /\ UNCHANGED <<subscribing, clientVars, callbacks, lastStats, published, bgVars>>

\* the messages waiting on the Send channel of client c
QLen(c) == Len(queues[c])

\* a broadcastMessage goroutine holds b.mu.RLock
Sending == \E g \in casts : g.pc = "sending"

\* apiSSE lines 307-308 with addClient lines 141-151 (b.mu.Lock)
Connect ==
    /\ subscribing
    /\ nextClient <= MaxClients
    /\ ~Sending
    /\ clients' = clients \cup {nextClient}
    /\ queues' = Put(queues, nextClient, <<>>)
    /\ nextClient' = nextClient + 1
    /\ UNCHANGED <<storeVars, clockVars, probes, puts, schedVars, lastProbe, bgVars,
                   subscribing, casts, castSeq, statsVars>>

\* nothing closed, removeClient never called, no panic
NoChans == [closed |-> {}, calls |-> [c \in 1..MaxClients |-> 0], panics |-> {}]

\* the state of the channels after close(client.Send) of client id: closing
\* a closed channel panics
Closed(id) ==
    [chans EXCEPT !.closed = @ \cup {id},
                  !.calls[id] = @ + 1,
                  !.panics = IF id \in chans.closed THEN @ \cup {<<"close", id>>} ELSE @]

\* removeClient that closes the channel of an id without looking it up
RemoveClientAlways(id) ==
    /\ id \in 1..MaxClients
    /\ chans.calls[id] < MaxRemoves
    /\ ~Sending
    /\ clients' = clients \ {id}
    /\ queues' = IF id \in DOMAIN queues THEN Drop(queues, id) ELSE queues
    /\ chans' = Closed(id)
    /\ UNCHANGED <<storeVars, clockVars, probes, puts, schedVars, lastProbe,
                   retVars, syncVars, posts, reply, debounce, locks,
                   subscribing, casts, castSeq, nextClient, statsVars>>

\* removeClient that does not wait for the broadcasts that hold b.mu.RLock
RemoveClientUnlocked(id) ==
    /\ id \in 1..MaxClients
    /\ chans.calls[id] < MaxRemoves
    /\ IF id \in clients
       THEN /\ clients' = clients \ {id}
            /\ queues' = Drop(queues, id)
            /\ chans' = Closed(id)
       ELSE /\ UNCHANGED <<clients, queues>>
            /\ chans' = [chans EXCEPT !.calls[id] = @ + 1]
    /\ UNCHANGED <<storeVars, clockVars, probes, puts, schedVars, lastProbe,
                   retVars, syncVars, posts, reply, debounce, locks,
                   subscribing, casts, castSeq, nextClient, statsVars>>

\* removeClient lines 154-162 (b.mu.Lock): if the id is in b.clients,
\* close(client.Send) and delete(b.clients, id)
RemoveClient(id) ==
    /\ id \in 1..MaxClients
    /\ chans.calls[id] < MaxRemoves
    /\ ~Sending
    /\ IF id \in clients
       THEN /\ clients' = clients \ {id}
            /\ queues' = Drop(queues, id)
            /\ chans' = Closed(id)
       ELSE /\ UNCHANGED <<clients, queues>>
            /\ chans' = [chans EXCEPT !.calls[id] = @ + 1]
    /\ UNCHANGED <<storeVars, clockVars, probes, puts, schedVars, lastProbe,
                   retVars, syncVars, posts, reply, debounce, locks,
                   subscribing, casts, castSeq, nextClient, statsVars>>

\* apiSSE lines 309-312, 354-359: the request's context is done and the
\* deferred removeClient(clientID) runs
Disconnect(c) ==
    /\ c \in clients
    /\ RemoveClient(c)

\* apiSSE lines 334-344: message := <-client.Send, written to the response
Receive(c) ==
    /\ c \in clients
    /\ QLen(c) > 0
    /\ queues' = [queues EXCEPT ![c] = Tail(@)]
    /\ UNCHANGED <<storeVars, clockVars, probes, puts, schedVars, lastProbe, bgVars,
                   subscribing, casts, castSeq, clients, nextClient, statsVars>>

\* broadcastMessage lines 166-174: RLock; no client: return
CastBegin(g) ==
    /\ g \in casts /\ g.pc = "spawned"
    /\ casts' = IF clients = {}
                THEN casts \ {g}
                ELSE (casts \ {g}) \cup {[g EXCEPT !.pc = "sending", !.rest = clients]}
    /\ UNCHANGED <<storeVars, clockVars, probes, puts, schedVars, lastProbe, bgVars,
                   subscribing, castSeq, clientVars, statsVars>>

\* CastSend with a slow subscriber disconnected instead of skipped
CastSendOrClose(g, c) ==
    /\ g \in casts /\ g.pc = "sending" /\ c \in g.rest
    /\ IF QLen(c) < QueueCap
       THEN /\ queues' = [queues EXCEPT ![c] = Append(@, g.msg)]
            /\ clients' = clients
            /\ chans' = chans
            /\ casts' = (casts \ {g}) \cup
                    {[g EXCEPT !.rest = @ \ {c}, !.sent = @ \cup {c}]}
       ELSE /\ queues' = Drop(queues, c)
            /\ clients' = clients \ {c}
            /\ chans' = [chans EXCEPT !.closed = @ \cup {c}]
            /\ casts' = (casts \ {g}) \cup
                    {[g EXCEPT !.rest = @ \ {c}, !.dropped = @ \cup {c}]}
    /\ UNCHANGED <<storeVars, clockVars, probes, puts, schedVars, lastProbe,
                   retVars, syncVars, posts, reply, debounce, locks,
                   subscribing, castSeq, nextClient, statsVars>>

\* lines 178-186: one round of the loop over b.clients: the select with a
\* default branch; a send on a closed channel panics
CastSend(g, c) ==
    /\ g \in casts /\ g.pc = "sending" /\ c \in g.rest
    /\ IF c \in chans.closed
       THEN /\ queues' = queues
            /\ chans' = [chans EXCEPT !.panics = @ \cup {<<"send", c>>}]
            /\ casts' = (casts \ {g}) \cup {[g EXCEPT !.rest = @ \ {c}]}
       ELSE /\ chans' = chans
            /\ IF QLen(c) < QueueCap
               THEN /\ queues' = [queues EXCEPT ![c] = Append(@, g.msg)]
                    /\ casts' = (casts \ {g}) \cup
                            {[g EXCEPT !.rest = @ \ {c}, !.sent = @ \cup {c}]}
               ELSE /\ queues' = queues
                    /\ casts' = (casts \ {g}) \cup
                            {[g EXCEPT !.rest = @ \ {c}, !.dropped = @ \cup {c}]}
    /\ UNCHANGED <<storeVars, clockVars, probes, puts, schedVars, lastProbe,
                   retVars, syncVars, posts, reply, debounce, locks,
                   subscribing, castSeq, clients, nextClient, statsVars>>

\* lines 188-189 and the deferred RUnlock
CastEnd(g) ==
    /\ g \in casts /\ g.pc = "sending" /\ g.rest = {}
    /\ casts' = casts \ {g}
    /\ UNCHANGED <<storeVars, clockVars, probes, puts, schedVars, lastProbe, bgVars,
                   subscribing, castSeq, clientVars, statsVars>>

\* ---- fleet stats and their debounced publication ----------------------------

\* lastStats == nil
NilStats == [valid |-> FALSE, overallUptime |-> 0, servicesUp |-> 0,
             servicesDown |-> 0, avgResponseTime |-> 0]

RECURSIVE SumOf(_, _)
SumOf(f, S) ==
    IF S = {} THEN 0
    ELSE LET x == CHOOSE y \in S : TRUE IN f[x] + SumOf(f, S \ {x})

\* getStats lines 20-27: the rows with paused = false
UnpausedRows == {m \in DOMAIN monitors : ~monitors[m].paused}

\* lines 44-46, 50-54: the samples of the last 24 h with status up and a
\* response time, of whatever monitor
TimedSamples(t) ==
    {i \in 1..Len(histories) :
        /\ histories[i].created_at > t - TwentyFourHours
        /\ histories[i].response_time > 0
        /\ histories[i].status = "up"}

\* lines 44-63: int(AVG(response_time)), 0 when no sample counts
HistoryAverage(t) ==
    IF TimedSamples(t) = {} THEN 0
    ELSE SumOf([i \in TimedSamples(t) |-> histories[i].response_time], TimedSamples(t))
            \div Cardinality(TimedSamples(t))

\* lines 69-84: the fallback over the rows of the unpaused monitors that are up
FallbackRows ==
    {m \in UnpausedRows : monitors[m].response_time > 0 /\ monitors[m].status = "up"}
FallbackAverage ==
    IF FallbackRows = {} THEN 0
    ELSE SumOf([m \in FallbackRows |-> monitors[m].response_time], FallbackRows)
            \div Cardinality(FallbackRows)

\* getStats lines 11-100, its queries taken as one read of the store
GetStats(t) ==
    [valid |-> TRUE,
     overallUptime |->
        IF UnpausedRows = {} THEN 0
        ELSE SumOf([m \in UnpausedRows |-> monitors[m].uptime], UnpausedRows)
                \div Cardinality(UnpausedRows),
     servicesUp |-> Cardinality({m \in UnpausedRows : monitors[m].status = "up"}),
     servicesDown |-> Cardinality({m \in UnpausedRows : monitors[m].status = "down"}),
     avgResponseTime |->
        IF HistoryAverage(t) = 0 THEN FallbackAverage ELSE HistoryAverage(t)]

IdleCallback == [pc |-> "idle", stats |-> NilStats]
FreeCallbacks == {k \in DOMAIN callbacks : callbacks[k].pc = "idle"}

\* the timer set by time.AfterFunc (line 218) fires: its function starts in a
\* goroutine of its own
TimerFire ==
    /\ timer = "armed"
    /\ FreeCallbacks # {}
    /\ timer' = "off"
    /\ callbacks' = [callbacks EXCEPT
            ![CHOOSE k \in FreeCallbacks : \A j \in FreeCallbacks : k <= j] =
                [pc |-> "stats", stats |-> NilStats]]
    /\ UNCHANGED <<storeVars, clockVars, probes, puts, schedVars, lastProbe, bgVars,
                   sseVars, lastStats, published>>

\* line 219: newStats := getStats()
CallbackStats(k) ==
    /\ callbacks[k].pc = "stats"
    /\ callbacks' = [callbacks EXCEPT ![k] = [pc |-> "decide", stats |-> GetStats(now)]]
    /\ UNCHANGED <<storeVars, clockVars, probes, puts, schedVars, lastProbe, bgVars,
                   sseVars, timer, lastStats, published>>

\* lines 231-235
Changed(old, new) ==
    \/ ~old.valid
    \/ old.overallUptime # new.overallUptime
    \/ old.servicesUp # new.servicesUp
    \/ old.servicesDown # new.servicesDown
    \/ old.avgResponseTime # new.avgResponseTime

\* lines 221-251 under statsMu: the comparison and lastStats = &newStats
CallbackDecide(k) ==
    /\ callbacks[k].pc = "decide"
    /\ IF Changed(lastStats, callbacks[k].stats)
       THEN /\ lastStats' = callbacks[k].stats
            /\ callbacks' = [callbacks EXCEPT ![k].pc = "publish"]
       ELSE /\ lastStats' = lastStats
            /\ callbacks' = [callbacks EXCEPT ![k] = IdleCallback]
    /\ UNCHANGED <<storeVars, clockVars, probes, puts, schedVars, lastProbe, bgVars,
                   sseVars, timer, published>>

\* line 246, after statsMu.Unlock(): broadcastUpdate("stats_update", newStats)
CallbackPublish(k) ==
    /\ callbacks[k].pc = "publish"
    /\ BroadcastUpdate("stats_update", 0)
    /\ published' = [any |-> TRUE, last |-> callbacks[k].stats,
                     repeat |-> published.repeat
                                \/ (published.any /\ published.last = callbacks[k].stats)]
    /\ callbacks' = [callbacks EXCEPT ![k] = IdleCallback]
    /\ UNCHANGED <<storeVars, clockVars, probes, puts, schedVars, lastProbe, bgVars,
                   subscribing, clientVars, timer, lastStats>>

\* ---- the daily cleanup job: cleanOldCheckHistory, bucketOldCheckHistory ------

\* const batchSize = 25, scaled down
BatchSize == 2

\* the job's local variables; table, upserted, failed, deleted and runs are
\* history: check_histories as the aggregation read it, the bucket keys the
\* run upserted, whether a query or batch failed, whether the last DELETE
\* succeeded, and the number of runs so far
IdleRetention ==
    [pc |-> "idle", cutoffTime |-> 0, sevenDaysAgo |-> 0, aggregatedBuckets |-> <<>>,
     i |-> 0, table |-> <<>>, upserted |-> {}, failed |-> FALSE,
     deleted |-> FALSE, runs |-> 0]

\* DELETE FROM check_histories WHERE created_at < t
DeleteBefore(t) ==
    SelectSeq(histories, LAMBDA h : ~(h.created_at < t))

\* substr(created_at, 1, 13) || ':00:00': the timestamp truncated to its hour
BucketHour(t) == (t \div Hour) * Hour

\* WHERE created_at < cutoff AND created_at >= seven
InWindow(table, cutoff, seven) ==
    {i \in 1..Len(table) : table[i].created_at < cutoff /\ table[i].created_at >= seven}

KeyOf(h) == <<h.monitor_id, BucketHour(h.created_at)>>

\* the rows of one hour, of whatever monitor
GroupOfHour(table, W, k) == {i \in W : BucketHour(table[i].created_at) = k[2]}

\* GROUP BY monitor_id, bucket_hour: the rows of one group
GroupOf(table, W, k) == {i \in W : KeyOf(table[i]) = k}

MinOf(S) == IF S = {} THEN 0 ELSE CHOOSE x \in S : \A y \in S : x <= y
MaxOf(S) == IF S = {} THEN 0 ELSE CHOOSE x \in S : \A y \in S : x >= y

\* lines 57-70: one row of the aggregation; AVG is kept as <<sum, count>>,
\* and NULL (no row with response_time > 0) is scanned as 0
Aggregate(table, W, k) ==
    LET G == GroupOf(table, W, k)
        T == {i \in G : table[i].response_time > 0}
    IN  [monitor_id |-> k[1], bucket_hour |-> k[2],
         total_checks |-> Cardinality(G),
         up_checks |-> Cardinality({i \in G : table[i].status = "up"}),
         avg_response_time |->
            IF T = {} THEN <<0, 1>>
            ELSE <<SumOf([i \in T |-> table[i].response_time], T), Cardinality(T)>>,
         min_response_time |-> MinOf({table[i].response_time : i \in T}),
         max_response_time |-> MaxOf({table[i].response_time : i \in T})]

\* ORDER BY monitor_id, bucket_hour
RECURSIVE SortedKeys(_)
SortedKeys(S) ==
    IF S = {} THEN <<>>
    ELSE LET k == CHOOSE x \in S : \A y \in S :
                    x[1] < y[1] \/ (x[1] = y[1] /\ x[2] <= y[2])
         IN <<k>> \o SortedKeys(S \ {k})

\* lines 57-70: the result of the aggregation query
Aggregated(table, cutoff, seven) ==
    LET W == InWindow(table, cutoff, seven)
        keys == SortedKeys({KeyOf(table[i]) : i \in W})
    IN  [n \in 1..Len(keys) |-> Aggregate(table, W, keys[n])]

\* lines 117-139: INSERT ... ON CONFLICT(monitor_id, bucket_hour) DO UPDATE of
\* the rows of one batch; created_at is written by the insert only
Upsert(b, rows) ==
    LET keys == {<<r.monitor_id, r.bucket_hour>> : r \in rows}
        row(k) == CHOOSE r \in rows : <<r.monitor_id, r.bucket_hour>> = k
    IN  [k \in DOMAIN b \cup keys |->
            IF k \notin keys THEN b[k]
            ELSE [monitor_id |-> k[1], bucket_hour |-> k[2],
                  total_checks |-> row(k).total_checks,
                  up_checks |-> row(k).up_checks,
                  avg_response_time |-> row(k).avg_response_time,
                  min_response_time |-> row(k).min_response_time,
                  max_response_time |-> row(k).max_response_time,
                  created_at |-> IF k \in DOMAIN b THEN b[k].created_at ELSE now]]

\* cleanOldCheckHistory, lines 12-27, at the start of the daily job
CleanOldCheckHistory(deletes) ==
    /\ retention.pc = "idle"
    /\ retention.runs < MaxRuns
    /\ \E ok \in deletes :
        histories' = IF ok THEN DeleteBefore(now - OneYear) ELSE histories
    /\ retention' = [IdleRetention EXCEPT !.pc = "aggregate", !.runs = retention.runs]
    /\ UNCHANGED <<monitors, nextID, clockVars, probes, puts, schedVars, lastProbe,
                   busVars, buckets, syncVars, posts, reply, debounce, chans, locks>>

\* bucketOldCheckHistory, lines 31-76: the two bounds and the aggregation
BucketAggregate(queries) ==
    /\ retention.pc = "aggregate"
    /\ \E ok \in queries :
        LET cutoff == now - TwentyFourHours
            seven == now - SevenDays
            aggs == Aggregated(histories, cutoff, seven)
        IN  retention' =
                IF ~ok
                THEN [retention EXCEPT !.pc = "idle", !.failed = TRUE,
                                       !.runs = @ + 1]
                ELSE [retention EXCEPT
                        !.pc = IF Len(aggs) = 0 THEN "delete" ELSE "batch",
                        !.cutoffTime = cutoff, !.sevenDaysAgo = seven,
                        !.aggregatedBuckets = aggs, !.i = 1, !.table = histories]
    /\ UNCHANGED <<storeVars, clockVars, probes, puts, schedVars, lastProbe,
                   busVars, buckets, syncVars, posts, reply, debounce, chans, locks>>

\* the rows of the batch from index i to index end
BatchRows(aggs, i) ==
    LET end == IF i + BatchSize - 1 > Len(aggs) THEN Len(aggs) ELSE i + BatchSize - 1
    IN  {aggs[n] : n \in i..end}

\* the upserts of a batch run without a transaction: a failure after the
\* first statement leaves the first row of the batch written
BucketBatchNoTx(commits) ==
    /\ retention.pc = "batch"
    /\ LET aggs == retention.aggregatedBuckets
           end == IF retention.i + BatchSize - 1 > Len(aggs)
                  THEN Len(aggs) ELSE retention.i + BatchSize - 1
           batch == BatchRows(aggs, retention.i)
       IN  \E ok \in commits :
            /\ buckets' = IF ok THEN Upsert(buckets, batch)
                          ELSE Upsert(buckets, {aggs[retention.i]})
            /\ retention' = [retention EXCEPT
                    !.i = @ + BatchSize,
                    !.pc = IF end = Len(aggs) THEN "delete" ELSE "batch",
                    !.failed = @ \/ ~ok,
                    !.upserted = IF ok
                                 THEN @ \cup {<<r.monitor_id, r.bucket_hour>> : r \in batch}
                                 ELSE @]
    /\ UNCHANGED <<storeVars, clockVars, probes, puts, schedVars, lastProbe, busVars,
                   syncVars, posts, reply, debounce, chans, locks>>

\* lines 96-156: one batch in one transaction; a failed batch is skipped
BucketBatch(commits) ==
    /\ retention.pc = "batch"
    /\ LET aggs == retention.aggregatedBuckets
           end == IF retention.i + BatchSize - 1 > Len(aggs)
                  THEN Len(aggs) ELSE retention.i + BatchSize - 1
           batch == {aggs[n] : n \in retention.i..end}
       IN  \E ok \in commits :
            /\ buckets' = IF ok THEN Upsert(buckets, batch) ELSE buckets
            /\ retention' = [retention EXCEPT
                    !.i = @ + BatchSize,
                    !.pc = IF end = Len(aggs) THEN "delete" ELSE "batch",
                    !.failed = @ \/ ~ok,
                    !.upserted = IF ok
                                 THEN @ \cup {<<r.monitor_id, r.bucket_hour>> : r \in batch}
                                 ELSE @]
    /\ UNCHANGED <<storeVars, clockVars, probes, puts, schedVars, lastProbe, busVars,
                   syncVars, posts, reply, debounce, chans, locks>>

\* lines 78-87, 158-164: the raw rows older than seven days are deleted
BucketDelete(deletes) ==
    /\ retention.pc = "delete"
    /\ \E ok \in deletes :
        /\ histories' = IF ok THEN DeleteBefore(retention.sevenDaysAgo) ELSE histories
        /\ retention' = [retention EXCEPT !.pc = "idle", !.deleted = ok,
                                          !.runs = @ + 1]
    /\ UNCHANGED <<monitors, nextID, clockVars, probes, puts, schedVars, lastProbe,
                   busVars, buckets, syncVars, posts, reply, debounce, chans, locks>>

\* ---- monitors.yaml and syncYAMLConfig (config.go, database.go) --------------

\* monitors.yaml does not exist
NoFile == [exists |-> FALSE, monitors |-> <<>>]
\* monitors.yaml with a list of MonitorConfig entries
File(entries) == [exists |-> TRUE, monitors |-> entries]

MonitorConfig(name, url, icon, ci, tp, paused) ==
    [name |-> name, url |-> url, icon |-> icon, checkInterval |-> ci,
     isThirdParty |-> tp, paused |-> paused]

\* calculateConfigHash, config.go lines 94-107: the fields formatted as
\* "%s|%s|%s|%d|%v|%v"; sha256 is taken as injective on the formatted string
ConfigStr(cfg) ==
    <<cfg.name, "|">> \o cfg.url \o
    <<"|", cfg.icon, "|", cfg.checkInterval, "|", cfg.isThirdParty, "|", cfg.paused>>
CalculateConfigHash(cfg) == ToString(ConfigStr(cfg))

\* config.go lines 55-59: entries without name or url are skipped
ValidEntry(cfg) == cfg.name # "" /\ cfg.url # <<>>

\* config.go lines 62-83: the Monitor built from an entry
MonitorOf(cfg) ==
    NewMonitor(cfg.name, cfg.url, cfg.isThirdParty, cfg.icon,
               IF cfg.checkInterval <= 0 THEN DefaultInterval ELSE cfg.checkInterval,
               cfg.paused, CalculateConfigHash(cfg), now)

\* loadMonitorsFromYAML, config.go lines 30-90: the monitors of the valid
\* entries, in file order; none when the file is missing or unreadable
LoadMonitorsFromYAML(file, ok) ==
    IF ~file.exists \/ ~ok THEN <<>>
    ELSE LET valid == SelectSeq(file.monitors, ValidEntry)
         IN  [n \in 1..Len(valid) |-> MonitorOf(valid[n])]

\* database.go lines 86-94: existingByHash, filled in the order of db.Find,
\* so that a later row replaces an earlier one with the same hash
ExistingByHash ==
    LET hashes == {monitors[m].config_hash : m \in DOMAIN monitors} \ {""}
    IN  [h \in hashes |->
            CHOOSE m \in DOMAIN monitors :
                /\ monitors[m].config_hash = h
                /\ \A n \in DOMAIN monitors : monitors[n].config_hash = h => n <= m]

\* line 144: db.Where("name = ? AND url = ?").First: the row with the lowest
\* id, 0 when there is none
FirstByNameURL(name, url) ==
    LET S == {m \in DOMAIN monitors : monitors[m].name = name /\ monitors[m].url = url}
    IN  IF S = {} THEN 0 ELSE CHOOSE m \in S : \A n \in S : m <= n

\* lines 97-119: the two default monitors
DefaultMonitors ==
    <<[NewMonitor("Example.com", <<"https://", "example.com">>, FALSE, "",
                  DefaultInterval, FALSE, "", now)
            EXCEPT !.status = "up", !.response_time = 229, !.last_check = <<5, "s ago">>],
      [NewMonitor("Google", <<"https://", "google.com">>, TRUE, "",
                  DefaultInterval, FALSE, "", now)
            EXCEPT !.status = "up", !.response_time = 2097, !.last_check = <<1, "s ago">>]>>

\* the columns a monitor's configuration consists of
ConfigOf(row) ==
    <<row.name, row.url, row.icon, row.check_interval, row.is_third_party,
      row.paused, row.config_hash>>
ConfigsOf(tbl) == [m \in DOMAIN tbl |-> ConfigOf(tbl[m])]

\* the local variables of syncYAMLConfig; file, readOK, changed, emitted,
\* before, after, runs and prev are history: the file and whether it was
\* read without error, whether the run wrote table monitors, the types of
\* the events it emitted, the stored configuration when the run began and
\* when it returned, the number of completed runs, and file, readOK and
\* after of the run before
NoPrev == [any |-> FALSE, file |-> NoFile, readOK |-> FALSE, after |-> <<>>]
IdleSync ==
    [pc |-> "idle", yamlMonitors |-> <<>>, existingByHash |-> <<>>,
     processedHashes |-> {}, removed |-> {}, i |-> 0,
     file |-> NoFile, readOK |-> FALSE, changed |-> FALSE, emitted |-> {},
     before |-> <<>>, after |-> <<>>, runs |-> 0, prev |-> NoPrev]

\* the operator writes or removes monitors.yaml while the server is down
WriteYAML(files) ==
    /\ sync.pc = "idle"
    /\ \E f \in files : yaml' = f
    /\ yaml' # yaml
    /\ UNCHANGED <<storeVars, clockVars, probes, puts, schedVars, lastProbe, busVars,
                   retVars, sync, posts, reply, debounce, chans, locks>>

\* the run is over: the function returns
SyncReturn(r, tbl) ==
    [r EXCEPT !.pc = "idle", !.runs = @ + 1, !.after = ConfigsOf(tbl)]

\* initDB line 60 at the start of the process, no goroutine running:
\* syncYAMLConfig lines 66-96, 126
SyncLoad(reads) ==
    /\ sync.pc = "idle"
    /\ sync.runs < MaxSyncs
    /\ \A s \in DOMAIN probes : probes[s].pc = "idle"
    /\ \E ok \in reads :
        \* config.go lines 41-49: only a file that exists can fail to be
        \* read or parsed
        /\ ~ok => yaml.exists
        /\ LET loaded == LoadMonitorsFromYAML(yaml, ok)
               r == [IdleSync EXCEPT
                       !.yamlMonitors = loaded, !.existingByHash = ExistingByHash,
                       !.i = 1, !.file = yaml, !.readOK = ok,
                       !.before = ConfigsOf(monitors), !.runs = sync.runs,
                       !.prev = IF sync.runs = 0 THEN NoPrev
                                ELSE [any |-> TRUE, file |-> sync.file,
                                      readOK |-> sync.readOK, after |-> sync.after]]
           IN  sync' = IF Len(loaded) > 0 THEN [r EXCEPT !.pc = "entries"]
                       ELSE IF DOMAIN monitors = {} THEN [r EXCEPT !.pc = "seed"]
                       ELSE SyncReturn(r, monitors)
    /\ UNCHANGED <<storeVars, clockVars, probes, puts, schedVars, lastProbe, busVars,
                   retVars, yaml, posts, reply, debounce, chans, locks>>

\* lines 97-124: one of the default monitors is created and checked
SyncSeed(writes) ==
    /\ sync.pc = "seed"
    /\ \E ok \in writes :
        /\ ok => FreeSlots # {}
        /\ monitors' = IF ok THEN Put(monitors, nextID, DefaultMonitors[sync.i])
                       ELSE monitors
        /\ nextID' = IF ok THEN nextID + 1 ELSE nextID
        /\ probes' = IF ok THEN Spawn(nextID) ELSE probes
        /\ sync' = IF sync.i = Len(DefaultMonitors)
                   THEN SyncReturn([sync EXCEPT !.changed = @ \/ ok], monitors')
                   ELSE [sync EXCEPT !.i = @ + 1, !.changed = @ \/ ok]
    /\ UNCHANGED <<histories, clockVars, puts, schedVars, lastProbe, busVars,
                   retVars, yaml, posts, reply, debounce, chans, locks>>

\* the entry is left alone when its hash is stored, whoever owns the row
\* with its name and url
SyncSkipsSameHash(monitor) ==
    \/ monitor.config_hash \in DOMAIN sync.existingByHash
    \/ /\ FirstByNameURL(monitor.name, monitor.url) # 0
       /\ monitors[FirstByNameURL(monitor.name, monitor.url)].config_hash
            = monitor.config_hash

\* the entry is left alone: lines 137-141, 149-160
SyncSkips(monitor) ==
    \/ monitor.config_hash \in DOMAIN sync.existingByHash
    \/ /\ FirstByNameURL(monitor.name, monitor.url) # 0
       /\ monitors[FirstByNameURL(monitor.name, monitor.url)].config_hash
            \in {"", monitor.config_hash}

\* lines 132-197: one entry of the file is processed
SyncEntry(writes) ==
    /\ sync.pc = "entries"
    /\ LET monitor == sync.yamlMonitors[sync.i]
           id == FirstByNameURL(monitor.name, monitor.url)
           next(r) == [r EXCEPT
                        !.processedHashes = @ \cup {monitor.config_hash},
                        !.i = @ + 1,
                        !.pc = IF sync.i = Len(sync.yamlMonitors)
                               THEN "remove" ELSE "entries"]
       IN  IF SyncSkips(monitor)
           THEN /\ sync' = next(sync)
                /\ UNCHANGED <<storeVars, probes, casts, castSeq>>
           ELSE \E ok \in writes :
                IF ~ok
                THEN /\ sync' = next(sync)
                     /\ UNCHANGED <<storeVars, probes, casts, castSeq>>
                ELSE IF id # 0
                THEN \* lines 168-184: the row is updated, its runtime data kept
                     /\ ~monitor.paused => FreeSlots # {}
                     /\ monitors' = Save(id,
                            [monitor EXCEPT
                                !.status = monitors[id].status,
                                !.uptime = monitors[id].uptime,
                                !.response_time = monitors[id].response_time,
                                !.last_check = monitors[id].last_check,
                                !.created_at = monitors[id].created_at])
                     /\ BroadcastUpdate("monitor_update", id)
                     /\ probes' = IF monitor.paused THEN probes ELSE Spawn(id)
                     /\ sync' = next([sync EXCEPT !.changed = TRUE,
                                        !.emitted = @ \cup {"monitor_update"}])
                     /\ UNCHANGED <<nextID, histories>>
                ELSE \* lines 186-195: the row is created
                     /\ nextID <= MaxMonitors
                     /\ FreeSlots # {}
                     /\ monitors' = Put(monitors, nextID, monitor)
                     /\ nextID' = nextID + 1
                     /\ BroadcastUpdate("monitor_added", nextID)
                     /\ probes' = Spawn(nextID)
                     /\ sync' = next([sync EXCEPT !.changed = TRUE,
                                        !.emitted = @ \cup {"monitor_added"}])
                     /\ UNCHANGED histories
    /\ UNCHANGED <<clockVars, puts, schedVars, lastProbe, subscribing, clientVars,
                   statsVars, retVars, yaml, posts, reply, debounce, chans, locks>>

\* lines 200-215: one hash of existingByHash, in the order of the map
SyncRemove(writes) ==
    /\ sync.pc = "remove"
    /\ DOMAIN sync.existingByHash # sync.removed
    /\ \E hash \in DOMAIN sync.existingByHash \ sync.removed :
        LET monitorID == sync.existingByHash[hash] IN
        IF hash \in sync.processedHashes
        THEN /\ sync' = [sync EXCEPT !.removed = @ \cup {hash}]
             /\ UNCHANGED <<monitors, casts, castSeq>>
        ELSE \E ok \in writes :
             IF ~ok
             THEN /\ sync' = [sync EXCEPT !.removed = @ \cup {hash}]
                  /\ UNCHANGED <<monitors, casts, castSeq>>
             ELSE /\ monitors' = Drop(monitors, monitorID)
                  /\ BroadcastUpdate("monitor_deleted", monitorID)
                  /\ sync' = [sync EXCEPT
                        !.removed = @ \cup {hash},
                        !.changed = @ \/ monitorID \in DOMAIN monitors,
                        !.emitted = @ \cup {"monitor_deleted"}]
    /\ UNCHANGED <<nextID, histories, clockVars, probes, puts, schedVars, lastProbe,
                   subscribing, clientVars, statsVars, retVars, yaml, posts, reply, debounce, chans, locks>>

\* lines 217-218: broadcastStatsIfChanged, and the function returns
SyncEnd ==
    /\ sync.pc = "remove"
    /\ DOMAIN sync.existingByHash = sync.removed
    /\ ArmTimer
    /\ sync' = SyncReturn(sync, monitors)
    /\ UNCHANGED <<storeVars, clockVars, probes, puts, schedVars, lastProbe, sseVars,
                   callbacks, lastStats, published, retVars, yaml, posts, reply, debounce, chans, locks>>

\* the goroutines inside the scheduler's functions: 1 is the goroutine of
\* startChecker that runs refreshScheduler, the others call addMonitorJob and
\* removeMonitorJob; the passes of the one and the calls of the others
Goroutines == 1..2
MaxPasses == 2
MaxCalls == 1

\* ms.mu free and unread, every goroutine outside the functions. Per
\* goroutine: its position, the monitor it was called with (id, paused,
\* interval), the job it created and the position it returns to; of the
\* pass: the rows of db.Find, the loop index, activeIDs, and the keys of
\* ms.jobs the last loop has produced
IdleLocks ==
    [mu |-> 0, readers |-> {},
     pc |-> [g \in Goroutines |-> "idle"],
     mon |-> [g \in Goroutines |-> 0],
     paused |-> [g \in Goroutines |-> FALSE],
     interval |-> [g \in Goroutines |-> 0],
     job |-> [g \in Goroutines |-> 0],
     back |-> [g \in Goroutines |-> "idle"],
     list |-> <<>>, idx |-> 0, active |-> {}, snap |-> {}, visited |-> {},
     passes |-> 0, calls |-> 0]

\* the goroutines calling broadcastStatsIfChanged, and the timers they make
MaxCallers == 2
MaxTimers == 4

\* ---- broadcastStatsIfChanged, step by step ----------------------------------

\* stats.go lines 116-120: debounceMu free, statsDebouncer nil, no timer made;
\* every caller outside broadcastStatsIfChanged
IdleDebounce ==
    [mu |-> 0, cur |-> 0, timers |-> <<>>, pc |-> [c \in 1..MaxCallers |-> "idle"]]

\* a goroutine calls broadcastStatsIfChanged()
CallArrive(c) ==
    /\ debounce.pc[c] = "idle"
    /\ Len(debounce.timers) + Cardinality({d \in 1..MaxCallers : debounce.pc[d] # "idle"})
           < MaxTimers
    /\ debounce' = [debounce EXCEPT !.pc[c] = "lock"]
    /\ UNCHANGED <<storeVars, clockVars, probes, puts, schedVars, lastProbe, busVars,
                   retVars, syncVars, posts, reply, chans, locks>>

\* debounceMu.Lock()
CallLock(c) ==
    /\ debounce.pc[c] = "lock"
    /\ debounce.mu = 0
    /\ debounce' = [debounce EXCEPT !.mu = c, !.pc[c] = "stop"]
    /\ UNCHANGED <<storeVars, clockVars, probes, puts, schedVars, lastProbe, busVars,
                   retVars, syncVars, posts, reply, chans, locks>>

\* statsDebouncer.Stop(): a timer whose function has started is not stopped
Stopped(ts, cur) ==
    IF cur # 0 /\ ts[cur] = "armed" THEN [ts EXCEPT ![cur] = "stopped"] ELSE ts

\* if statsDebouncer != nil { statsDebouncer.Stop() }
CallStop(c) ==
    /\ debounce.pc[c] = "stop"
    /\ debounce' = [debounce EXCEPT !.timers = Stopped(debounce.timers, debounce.cur),
                                    !.pc[c] = "arm"]
    /\ UNCHANGED <<storeVars, clockVars, probes, puts, schedVars, lastProbe, busVars,
                   retVars, syncVars, posts, reply, chans, locks>>

\* statsDebouncer = time.AfterFunc(500ms, ...) and the deferred debounceMu.Unlock()
CallArm(c) ==
    /\ debounce.pc[c] = "arm"
    /\ debounce' = [debounce EXCEPT !.timers = Append(debounce.timers, "armed"),
                                    !.cur = Len(debounce.timers) + 1,
                                    !.mu = 0,
                                    !.pc[c] = "idle"]
    /\ UNCHANGED <<storeVars, clockVars, probes, puts, schedVars, lastProbe, busVars,
                   retVars, syncVars, posts, reply, chans, locks>>

\* the 500 ms of timer t are over: its function starts in its own goroutine
\* and calls getStats()
Fire(t) ==
    /\ t \in 1..Len(debounce.timers)
    /\ debounce.timers[t] = "armed"
    /\ debounce' = [debounce EXCEPT !.timers[t] = "fired"]
    /\ UNCHANGED <<storeVars, clockVars, probes, puts, schedVars, lastProbe, busVars,
                   retVars, syncVars, posts, reply, chans, locks>>

\* The database holds no monitor and no sample, nothing is scheduled and no
\* goroutine runs: the state of a server whose monitors were all deleted.
InitFrom(nprobes, samples, t) ==
    /\ monitors = <<>>
    /\ nextID = 1
    /\ histories = samples
    /\ now = t
    /\ advances = 0
    /\ probes = [s \in 1..nprobes |-> IdleProbe]
    /\ puts = [s \in 1..MaxPuts |-> IdlePut]
    /\ jobs = <<>>
    /\ intervals = <<>>
    /\ registered = {}
    /\ nextJob = 1
    /\ ref = IdleRef
    /\ dirty = FALSE
    /\ lastProbe = <<>>
    /\ casts = {}
    /\ castSeq = 0
    /\ clients = {}
    /\ nextClient = 1
    /\ queues = <<>>
    /\ timer = "off"
    /\ callbacks = [k \in 1..MaxCallbacks |-> IdleCallback]
    /\ lastStats = NilStats
    /\ published = [any |-> FALSE, last |-> NilStats, repeat |-> FALSE]
    /\ buckets = <<>>
    /\ retention = IdleRetention
    /\ yaml = NoFile
    /\ sync = IdleSync
    /\ posts = {}
    /\ reply = NoReply
    /\ debounce = IdleDebounce
    /\ chans = NoChans
    /\ locks = IdleLocks

InitWith(nprobes) == InitFrom(nprobes, <<>>, 0)

\* ---- POST /api/monitors/create
ApiCreate(names, urls, ivals) ==
    \E name \in names, url \in urls, ci \in ivals :
        IF name = "" \/ url = <<>>
        THEN UNCHANGED vars                       \* 400
        ELSE /\ nextID <= MaxMonitors
             /\ FreeSlots # {}
             /\ monitors' = Put(monitors, nextID,
                    NewMonitor(name, url, FALSE, "", StoredInterval(ci), FALSE, "", now))
             /\ nextID' = nextID + 1
             /\ probes' = Spawn(nextID)
             /\ dirty' = (dirty \/ Written)
             /\ Emit("monitor_added", nextID)
             /\ UNCHANGED <<histories, clockVars, puts, mapVars, lastProbe>>

\* ---- POST /api/monitors/create, one step per goroutine switch
\* handlers.go lines 212-234: db.Create, then `go checkService(&monitor)`;
\* the handler has not yet called broadcastUpdate
PostCreate(names, urls, ivals) ==
    \E name \in names, url \in urls, ci \in ivals :
        /\ name # "" /\ url # <<>>
        /\ nextID <= MaxMonitors
        /\ FreeSlots # {}
        /\ monitors' = Put(monitors, nextID,
               NewMonitor(name, url, FALSE, "", StoredInterval(ci), FALSE, "", now))
        /\ nextID' = nextID + 1
        /\ probes' = Spawn(nextID)
        /\ dirty' = (dirty \/ Written)
        /\ posts' = posts \cup {nextID}
        /\ UNCHANGED <<histories, clockVars, puts, mapVars, lastProbe, busVars,
                       retVars, syncVars, reply, debounce, chans, locks>>

\* handlers.go lines 237-240: broadcastUpdate("monitor_added", monitor), then
\* broadcastStatsIfChanged()
PostPublish(id) ==
    /\ id \in posts
    /\ posts' = posts \ {id}
    /\ BroadcastUpdate("monitor_added", id)
    /\ ArmTimer
    /\ UNCHANGED <<storeVars, clockVars, probes, puts, schedVars, lastProbe,
                   subscribing, clientVars, callbacks, lastStats, published,
                   retVars, syncVars, reply, debounce, chans, locks>>

\* ---- PUT /api/monitor?id=: db.First
PutBegin(s, id) ==
    /\ puts[s].pc = "idle"
    /\ \A t \in 1..MaxPuts : puts[t].pc = "idle" => s <= t
    /\ IF id \notin DOMAIN monitors
       THEN UNCHANGED vars                        \* 404
       ELSE /\ puts' = [puts EXCEPT ![s] = [pc |-> "read", id |-> id, monitor |-> monitors[id]]]
            /\ UNCHANGED <<storeVars, clockVars, probes, schedVars, lastProbe, busVars, bgVars>>

\* ---- PUT with a body carrying "paused": monitor.Paused = b; db.Save
PutPause(s, b) ==
    /\ puts[s].pc = "read"
    /\ monitors' = Save(puts[s].id, [puts[s].monitor EXCEPT !.paused = b])
    /\ puts' = [puts EXCEPT ![s] = IdlePut]
    /\ dirty' = (dirty \/ Written)
    /\ Emit("monitor_update", puts[s].id)
    /\ UNCHANGED <<nextID, histories, clockVars, probes, mapVars, lastProbe>>

\* ---- PUT with a full edit body
PutEdit(s, names, urls, ivals) ==
    /\ puts[s].pc = "read"
    /\ \E name \in names, url \in urls, ci \in ivals :
        IF name = "" \/ url = <<>>
        THEN /\ puts' = [puts EXCEPT ![s] = IdlePut]           \* 400
             /\ UNCHANGED <<storeVars, clockVars, probes, schedVars, lastProbe, busVars, bgVars>>
        ELSE /\ monitors' = Save(puts[s].id,
                    [puts[s].monitor EXCEPT !.name = name, !.url = url,
                        !.is_third_party = FALSE, !.icon = "",
                        !.check_interval = StoredInterval(ci)])
             /\ puts' = [puts EXCEPT ![s] = IdlePut]
             /\ dirty' = (dirty \/ Written)
             /\ Emit("monitor_update", puts[s].id)
             /\ UNCHANGED <<nextID, histories, clockVars, probes, mapVars, lastProbe>>

\* ApiDelete with the samples of the monitor deleted along with its row
ApiDeleteCascade(id) ==
    IF id \notin DOMAIN monitors
    THEN UNCHANGED vars
    ELSE /\ monitors' = Drop(monitors, id)
         /\ histories' = SelectSeq(histories, LAMBDA h : h.monitor_id # id)
         /\ dirty' = (dirty \/ Written)
         /\ Emit("monitor_deleted", id)
         /\ UNCHANGED <<nextID, clockVars, probes, puts, mapVars, lastProbe>>

\* ---- DELETE /api/monitor?id=
ApiDelete(id) ==
    IF id \notin DOMAIN monitors
    THEN UNCHANGED vars                           \* 404
    ELSE /\ monitors' = Drop(monitors, id)
         /\ dirty' = (dirty \/ Written)
         /\ Emit("monitor_deleted", id)
         /\ UNCHANGED <<nextID, histories, clockVars, probes, puts, mapVars, lastProbe>>

\* ---- the handlers as a whole: request in, status code out
\* strconv.ParseUint(id, 10, 32) on the id parameters of the requests
NumberOf == ("1" :> 1) @@ ("2" :> 2) @@ ("9" :> 9)

\* RequiredMissing with the url left unchecked
RequiredMissingName(body) == body.name = ""

\* handlers.go lines 201 and 464: req.Name == "" || req.URL == ""
RequiredMissing(body) == body.name = "" \/ body.url = <<>>

\* http.Error(w, ..., code) and return, or the body of a GET: nothing else
AnswerOnly(req, code) ==
    /\ reply' = [req |-> req, code |-> code]
    /\ UNCHANGED <<storeVars, clockVars, probes, puts, schedVars, lastProbe, busVars,
                   retVars, syncVars, posts, debounce, chans, locks>>

\* broadcastUpdate(type, ...), broadcastStatsIfChanged() and the response
Answer(req, code, type, m) ==
    /\ reply' = [req |-> req, code |-> code]
    /\ BroadcastUpdate(type, m)
    /\ ArmTimer
    /\ UNCHANGED <<subscribing, clientVars, callbacks, lastStats, published,
                   retVars, syncVars, posts, debounce, chans, locks>>

\* apiCreateMonitor lines 193-246
ServePost(req) ==
    IF req.body.kind = "garbage" \/ RequiredMissing(req.body)
    THEN AnswerOnly(req, 400)
    ELSE /\ nextID <= MaxMonitors
         /\ FreeSlots # {}
         /\ monitors' = Put(monitors, nextID,
                NewMonitor(req.body.name, req.body.url, FALSE, "",
                           StoredInterval(req.body.checkInterval), FALSE, "", now))
         /\ nextID' = nextID + 1
         /\ probes' = Spawn(nextID)
         /\ dirty' = (dirty \/ Written)
         /\ Answer(req, 201, "monitor_added", nextID)
         /\ UNCHANGED <<histories, clockVars, puts, mapVars, lastProbe>>

\* apiMonitor lines 377-404, 406-503 and 506-544, the read and the write of a
\* PUT in one step
ServeMonitor(req) ==
    IF req.id = "" \/ req.id \notin DOMAIN NumberOf
    THEN AnswerOnly(req, 400)
    ELSE IF NumberOf[req.id] \notin DOMAIN monitors
    THEN AnswerOnly(req, 404)
    ELSE LET id == NumberOf[req.id] IN
         CASE req.method = "GET" -> AnswerOnly(req, 200)
           [] req.method = "DELETE" ->
                /\ monitors' = Drop(monitors, id)
                /\ dirty' = (dirty \/ Written)
                /\ Answer(req, 204, "monitor_deleted", id)
                /\ UNCHANGED <<nextID, histories, clockVars, probes, puts, mapVars, lastProbe>>
           [] req.method = "PUT" /\ req.body.kind = "pause" ->
                /\ monitors' = Save(id, [monitors[id] EXCEPT !.paused = req.body.paused])
                /\ dirty' = (dirty \/ Written)
                /\ Answer(req, 200, "monitor_update", id)
                /\ UNCHANGED <<nextID, histories, clockVars, probes, puts, mapVars, lastProbe>>
           [] req.method = "PUT" /\ req.body.kind # "pause" ->
                IF req.body.kind = "garbage" \/ RequiredMissing(req.body)
                THEN AnswerOnly(req, 400)
                ELSE /\ monitors' = Save(id,
                            [monitors[id] EXCEPT !.name = req.body.name, !.url = req.body.url,
                                !.is_third_party = FALSE, !.icon = "",
                                !.check_interval = StoredInterval(req.body.checkInterval)])
                     /\ dirty' = (dirty \/ Written)
                     /\ Answer(req, 200, "monitor_update", id)
                     /\ UNCHANGED <<nextID, histories, clockVars, probes, puts, mapVars, lastProbe>>

Serve(req) ==
    IF req.method = "POST" THEN ServePost(req) ELSE ServeMonitor(req)

\* ---- the clock
Advance(jumps) ==
    /\ advances < MaxAdvance
    /\ \E d \in jumps : now' = now + d
    /\ advances' = advances + 1
    /\ UNCHANGED <<storeVars, probes, puts, schedVars, lastProbe, busVars, bgVars>>

\* ---- checkService ---------------------------------------------------------

\* the answers httpClient.Do can give to an http(s) request: a transport error,
\* or a response with a status code, after `elapsed` milliseconds
Outcome(err, code, elapsed) == [err |-> err, code |-> code, elapsed |-> elapsed]

\* lines 421-432: the url the request goes to
ServiceURL(url) ==
    IF ~HasPrefix(url, "http://") /\ ~HasPrefix(url, "https://")
    THEN IF HasPrefix(url, "ping://") THEN url ELSE <<"https://">> \o url
    ELSE url

\* lines 423-428: status and responseTime after the prefix checks
PingStub(url) ==
    IF ~HasPrefix(url, "http://") /\ ~HasPrefix(url, "https://") /\ HasPrefix(url, "ping://")
    THEN [status |-> "up", rt |-> PingResponseTime, requested |-> FALSE, code |-> 0]
    ELSE [status |-> "", rt |-> 0, requested |-> FALSE, code |-> 0]

\* Classify with the upper edge of the success range included
ClassifyUpTo400(url, o) ==
    LET su == ServiceURL(url)
        stub == PingStub(url)
    IN
    IF ParseErr(su) \/ ParseHost(su) = <<>>
    THEN [stub EXCEPT !.status = "down", !.rt = 0]
    ELSE IF ParseScheme(su) \notin {"http://", "https://"}
    THEN [stub EXCEPT !.status = "down", !.rt = 0]
    ELSE IF o.err
    THEN [stub EXCEPT !.status = "down", !.rt = 0, !.requested = TRUE]
    ELSE IF o.code >= 200 /\ o.code <= 400
    THEN [stub EXCEPT !.status = "up", !.rt = o.elapsed, !.requested = TRUE, !.code = o.code]
    ELSE [stub EXCEPT !.status = "down", !.rt = o.elapsed, !.requested = TRUE, !.code = o.code]

\* lines 434-467: status, responseTime, whether a request went out on the
\* network, and the status code received (0: none).  http.NewRequest parses
\* the url as url.Parse does, so it fails only where url.Parse has failed.
\* http.Transport answers a scheme other than http(s) with an error
\* ("unsupported protocol scheme") before any network I/O.
Classify(url, o) ==
    LET su == ServiceURL(url)
        stub == PingStub(url)
    IN
    IF ParseErr(su) \/ ParseHost(su) = <<>>
    THEN [stub EXCEPT !.status = "down", !.rt = 0]
    ELSE IF ParseScheme(su) \notin {"http://", "https://"}
    THEN [stub EXCEPT !.status = "down", !.rt = 0]
    ELSE IF o.err
    THEN [stub EXCEPT !.status = "down", !.rt = 0, !.requested = TRUE]
    ELSE IF o.code >= 200 /\ o.code < 400
    THEN [stub EXCEPT !.status = "up", !.rt = o.elapsed, !.requested = TRUE, !.code = o.code]
    ELSE [stub EXCEPT !.status = "down", !.rt = o.elapsed, !.requested = TRUE, !.code = o.code]

\* Sample with the measured response time stored whatever the status
SampleRaw(m, status, rt, t) ==
    [monitor_id |-> m, status |-> status,
     response_time |-> rt,
     created_at |-> t,
     while_paused |-> m \in DOMAIN monitors /\ monitors[m].paused]

\* lines 469-479: the CheckHistory row (while_paused is history: whether the
\* stored monitor row was paused when the row was inserted)
Sample(m, status, rt, t) ==
    [monitor_id |-> m, status |-> status,
     response_time |-> IF status = "up" /\ rt > 0 THEN rt ELSE 0,
     created_at |-> t,
     while_paused |-> m \in DOMAIN monitors /\ monitors[m].paused]

\* lines 486-496
LastCheck(t, updated_at) ==
    IF t - updated_at > Minute
    THEN IF t - updated_at < 60
         THEN <<t - updated_at, "m ago">>
         ELSE <<(t - updated_at) \div 60, "h ago">>
    ELSE <<0, "just now">>

\* float64(up) / float64(total) * 100, in hundredths of a percent
Percent(up, total) == (up * 10000) \div total

\* lines 526-535: COUNT(*) and SUM(status = 'up') of the monitor's rows with
\* created_at > now - 24h
Window(m, t) ==
    {i \in 1..Len(histories) :
        histories[i].monitor_id = m /\ histories[i].created_at > t - TwentyFourHours}
TotalCount(m, t) == Cardinality(Window(m, t))
UpCount(m, t) == Cardinality({i \in Window(m, t) : histories[i].status = "up"})

\* the view monitor_stats_24h (total_checks, up_checks, uptime_percent)
ViewTotal(m, t) == TotalCount(m, t)
ViewPercent(m, t) == Percent(UpCount(m, t), TotalCount(m, t))

\* Uptime without the fallback to the status of the present probe
UptimeOfSamples(m, t, status, viewErr) ==
    IF TotalCount(m, t) > 0 THEN Percent(UpCount(m, t), TotalCount(m, t)) ELSE 0

\* lines 498-547
Uptime(m, t, status, viewErr) ==
    IF ~viewErr /\ ViewTotal(m, t) > 0
    THEN ViewPercent(m, t)
    ELSE IF TotalCount(m, t) > 0
    THEN Percent(UpCount(m, t), TotalCount(m, t))
    ELSE IF status = "up" THEN 10000 ELSE 0

\* lines 385-413: db.First, the paused check
ProbeStart(s) ==
    /\ probes[s].pc = "spawned"
    /\ LET m == probes[s].mon IN
       probes' = [probes EXCEPT ![s] =
            IF m \notin DOMAIN monitors \/ monitors[m].paused
            THEN IdleProbe
            ELSE [@ EXCEPT !.pc = "check", !.url = monitors[m].url,
                           !.updated_at = monitors[m].updated_at]]
    /\ UNCHANGED <<storeVars, clockVars, puts, schedVars, lastProbe, busVars, bgVars>>

\* lines 417-475: the request, its classification, and the CheckHistory
\* value with CreatedAt: time.Now()
ProbeRequest(s, outcomes) ==
    /\ probes[s].pc = "check"
    /\ \E o \in outcomes :
        LET c == Classify(probes[s].url, o) IN
        probes' = [probes EXCEPT ![s] =
                [@ EXCEPT !.pc = "stamped", !.status = c.status, !.rt = c.rt,
                          !.requested = c.requested, !.code = c.code,
                          !.created_at = now]]
    /\ UNCHANGED <<storeVars, clockVars, puts, schedVars, lastProbe, busVars, bgVars>>

\* lines 477-483: db.Create(&checkHistory); the insert fails when the
\* database refuses the write
ProbeInsert(s, inserts) ==
    /\ probes[s].pc = "stamped"
    /\ \E ok \in inserts :
        /\ ok => Len(histories) < MaxSamples
        /\ histories' = IF ok
                        THEN Append(histories, Sample(probes[s].mon, probes[s].status,
                                                      probes[s].rt, probes[s].created_at))
                        ELSE histories
    /\ probes' = [probes EXCEPT ![s].pc = "inserted"]
    /\ UNCHANGED <<monitors, nextID, clockVars, puts, schedVars, lastProbe, busVars, bgVars>>

\* lines 485-547: now, lastCheck, the uptime query
ProbeCompute(s) ==
    /\ probes[s].pc = "inserted"
    /\ \E viewErr \in BOOLEAN :
        LET p == probes[s] IN
        probes' = [probes EXCEPT ![s] =
            [p EXCEPT !.pc = "computed", !.now = now,
                      !.last_check = LastCheck(now, p.updated_at),
                      !.uptime = Uptime(p.mon, now, p.status, viewErr)]]
    /\ UNCHANGED <<storeVars, clockVars, puts, schedVars, lastProbe, busVars, bgVars>>

\* Patch with the url the probe loaded written back as well
PatchWithURL(row, p) ==
    [row EXCEPT !.status = p.status, !.response_time = p.rt,
                !.last_check = p.last_check, !.uptime = p.uptime,
                !.updated_at = p.now, !.url = p.url]

\* lines 549-557: UPDATE monitors SET status, response_time, last_check,
\* uptime, updated_at WHERE id = ?
Patch(row, p) ==
    [row EXCEPT !.status = p.status, !.response_time = p.rt,
                !.last_check = p.last_check, !.uptime = p.uptime,
                !.updated_at = p.now]

ProbePatch(s) ==
    /\ probes[s].pc = "computed"
    /\ LET m == probes[s].mon IN
       /\ monitors' = IF m \in DOMAIN monitors
                      THEN [monitors EXCEPT ![m] = Patch(@, probes[s])]
                      ELSE monitors
       /\ lastProbe' = IF m \in DOMAIN monitors
                       THEN Put(lastProbe, m, probes[s].now)
                       ELSE lastProbe
    /\ probes' = [probes EXCEPT ![s].pc = "patched"]
    /\ UNCHANGED <<nextID, histories, clockVars, puts, schedVars, busVars, bgVars>>

\* lines 559-569: the reload (a failure ends the probe) and the broadcasts
ProbeFinish(s) ==
    /\ probes[s].pc = "patched"
    /\ probes' = [probes EXCEPT ![s] = IdleProbe]
    /\ IF probes[s].mon \in DOMAIN monitors
       THEN Emit("monitor_update", probes[s].mon)
       ELSE UNCHANGED <<busVars, bgVars>>
    /\ UNCHANGED <<storeVars, clockVars, puts, schedVars, lastProbe>>

\* ---- MonitorScheduler -----------------------------------------------------

\* JobInterval without the monitor's own interval
JobIntervalDefault(ci) == DefaultInterval

\* addMonitorJob lines 606-609
JobInterval(ci) == IF ci <= 0 THEN DefaultInterval ELSE ci

\* lines 611-616: the job exists with this interval
\* JobUnchanged without the comparison of the intervals
JobExists(m, iv) == m \in DOMAIN intervals

JobUnchanged(m, iv) == m \in DOMAIN intervals /\ intervals[m] = iv

\* RegisteredWithout without the call of scheduler.RemoveJob
RegisteredKept(ms) == registered

\* lines 596-600, 625-635, 679-686: the jobs gocron holds and the two maps
\* after the jobs of the monitors in `ms` were removed
RegisteredWithout(ms) == {j \in registered : \A m \in ms \cap DOMAIN jobs : j.id # jobs[m]}
MapWithout(f, ms) == [x \in DOMAIN f \ ms |-> f[x]]

\* db.Find(&monitors): the rows by id
RECURSIVE SortedIds(_)
SortedIds(S) ==
    IF S = {} THEN <<>>
    ELSE LET m == CHOOSE x \in S : \A y \in S : x <= y
         IN <<m>> \o SortedIds(S \ {m})

\* refreshScheduler lines 690-701
RefreshBegin ==
    /\ ref.pc = "idle"
    /\ ref' = [IdleRef EXCEPT !.pc = "loop", !.list = SortedIds(DOMAIN monitors), !.idx = 1]
    /\ dirty' = FALSE
    /\ UNCHANGED <<storeVars, clockVars, probes, puts, jobs, intervals, registered, nextJob, lastProbe, busVars, bgVars>>

\* lines 704-719 with addMonitorJob lines 591-639: db.First, then the paused
\* branch, the unchanged branch, or the removal of the job to be replaced
RefreshMonitor ==
    /\ ref.pc = "loop"
    /\ ref.idx <= Len(ref.list)
    /\ LET m == ref.list[ref.idx]
           next == [ref EXCEPT !.idx = @ + 1, !.active = @ \cup {m},
                               !.mon = 0, !.interval = 0, !.old = 0]
       IN
       IF m \notin DOMAIN monitors
       THEN /\ ref' = next
            /\ UNCHANGED <<jobs, intervals, registered>>
       ELSE IF monitors[m].paused
       THEN /\ ref' = next
            /\ registered' = RegisteredWithout({m})
            /\ jobs' = MapWithout(jobs, {m})
            /\ intervals' = MapWithout(intervals, {m})
       ELSE IF JobUnchanged(m, JobInterval(monitors[m].check_interval))
       THEN /\ ref' = next
            /\ UNCHANGED <<jobs, intervals, registered>>
       ELSE /\ ref' = [ref EXCEPT !.pc = "sleep", !.active = @ \cup {m}, !.mon = m,
                               !.interval = JobInterval(monitors[m].check_interval),
                               !.old = IF m \in DOMAIN intervals THEN intervals[m] ELSE 0]
            /\ registered' = RegisteredWithout({m})
            /\ jobs' = MapWithout(jobs, {m})
            /\ intervals' = MapWithout(intervals, {m})
    /\ UNCHANGED <<storeVars, clockVars, probes, puts, nextJob, dirty, lastProbe, busVars, bgVars>>

\* addMonitorJob lines 641-671: scheduler.NewJob, then the two map entries
RefreshNewJob ==
    /\ ref.pc = "sleep"
    /\ nextJob <= MaxJobs
    /\ registered' = registered \cup
            {[id |-> nextJob, mon |-> ref.mon, interval |-> ref.interval]}
    /\ jobs' = Put(jobs, ref.mon, nextJob)
    /\ intervals' = Put(intervals, ref.mon, ref.interval)
    /\ nextJob' = nextJob + 1
    /\ ref' = [ref EXCEPT !.pc = "loop", !.idx = @ + 1]
    /\ UNCHANGED <<storeVars, clockVars, probes, puts, dirty, lastProbe, busVars, bgVars>>

\* refreshScheduler lines 721-731: removeMonitorJob for the ids not seen
RefreshSweep ==
    /\ ref.pc = "loop"
    /\ ref.idx > Len(ref.list)
    /\ registered' = RegisteredWithout(DOMAIN jobs \ ref.active)
    /\ jobs' = MapWithout(jobs, DOMAIN jobs \ ref.active)
    /\ intervals' = MapWithout(intervals, DOMAIN jobs \ ref.active)
    /\ ref' = IdleRef
    /\ UNCHANGED <<storeVars, clockVars, probes, puts, nextJob, dirty, lastProbe, busVars, bgVars>>

\* gocron runs the task of a job it holds (at once after NewJob, then every
\* interval seconds), each run in a goroutine of its own
JobRun(j) ==
    /\ j \in registered
    /\ FreeSlots # {}
    /\ probes' = Spawn(j.mon)
    /\ UNCHANGED <<storeVars, clockVars, puts, schedVars, lastProbe, busVars, bgVars>>

\* ---- MonitorScheduler, lock by lock ----------------------------------------

\* what the lock actions leave alone
LockFrame ==
    UNCHANGED <<storeVars, clockVars, probes, puts, ref, dirty, lastProbe, busVars,
                retVars, syncVars, posts, reply, debounce, chans>>

\* the positions at which a goroutine requests ms.mu.Lock(), and the position
\* it has once it holds the mutex
Held == ("lock_ids" :> "ids") @@ ("lock_paused" :> "paused") @@
        ("lock_remove" :> "remove") @@ ("lock_set" :> "set") @@
        ("lock_rm" :> "rm") @@ ("lock_sweep" :> "sweep")

\* addMonitorJob lines 591-609, entered by goroutine g with a Monitor value
Enter(g, m, paused, ci, back) ==
    [locks EXCEPT !.mon[g] = m, !.paused[g] = paused,
                  !.interval[g] = JobInterval(ci), !.back[g] = back,
                  !.pc[g] = IF paused THEN "lock_paused" ELSE "rlock_read"]

\* refreshScheduler lines 690-701: db.Find, then the Lock around activeIDs
PassBegin ==
    /\ locks.pc[1] = "idle"
    /\ locks.passes < MaxPasses
    /\ locks' = [locks EXCEPT !.pc[1] = "lock_ids", !.passes = @ + 1,
                              !.list = SortedIds(DOMAIN monitors), !.idx = 1,
                              !.active = {}, !.snap = {}, !.visited = {}]
    /\ UNCHANGED <<jobs, intervals, registered, nextJob>>
    /\ LockFrame

\* lines 704-721: one round of the loop over the rows, with db.First and the
\* call of addMonitorJob; after the last row the Lock of the removal loop
LoopStep ==
    /\ locks.pc[1] = "loop"
    /\ IF locks.idx > Len(locks.list)
       THEN locks' = [locks EXCEPT !.pc[1] = "lock_sweep"]
       ELSE LET m == locks.list[locks.idx]
                seen == [locks EXCEPT !.idx = @ + 1, !.active = @ \cup {m}]
            IN  locks' = IF m \notin DOMAIN monitors
                         THEN seen
                         ELSE [Enter(1, m, monitors[m].paused,
                                     monitors[m].check_interval, "loop")
                                  EXCEPT !.idx = @ + 1, !.active = @ \cup {m}]
    /\ UNCHANGED <<jobs, intervals, registered, nextJob>>
    /\ LockFrame

\* another goroutine calls addMonitorJob with a Monitor value, or
\* removeMonitorJob with an id
Call(g) ==
    /\ g # 1
    /\ locks.pc[g] = "idle"
    /\ locks.calls < MaxCalls
    /\ \E m \in {1} :
        \/ \E paused \in BOOLEAN, ci \in {30} :
             locks' = [Enter(g, m, paused, ci, "idle") EXCEPT !.calls = @ + 1]
        \/ locks' = [locks EXCEPT !.pc[g] = "lock_rm", !.mon[g] = m,
                                  !.back[g] = "idle", !.calls = @ + 1]
    /\ UNCHANGED <<jobs, intervals, registered, nextJob>>
    /\ LockFrame

\* ms.mu.Lock() and ms.mu.RLock(): the goroutine waits until the mutex is free
Acquire(g) ==
    /\ locks.mu = 0
    /\ \/ /\ locks.pc[g] \in DOMAIN Held
          /\ locks.readers = {}
          /\ locks' = [locks EXCEPT
                !.mu = g, !.pc[g] = Held[locks.pc[g]],
                !.snap = IF locks.pc[g] = "lock_sweep" /\ locks.visited = {}
                         THEN DOMAIN jobs ELSE @]
       \/ /\ locks.pc[g] = "rlock_read"
          /\ locks' = [locks EXCEPT !.readers = @ \cup {g}, !.pc[g] = "read"]
    /\ UNCHANGED <<jobs, intervals, registered, nextJob>>
    /\ LockFrame

\* the removal loop that keeps the mutex while it calls removeMonitorJob
HeldInCallKept(g) == g

\* lines 725-727: ms.mu.Unlock() before removeMonitorJob is called
HeldInCall(g) == 0

\* the code between a Lock or RLock and its Unlock, and the Unlock:
\* lines 699-701 (activeIDs), 594-603 (paused), 611-613 with 616-621 (the
\* interval read and compared), 624-635 (the old job removed), 661-664 (the
\* maps set), 676-686 (removeMonitorJob)
Release(g) ==
    /\ locks.pc[g] \in {"ids", "paused", "read", "remove", "set", "rm"}
    /\ LET p == locks.pc[g]
           m == locks.mon[g]
           free == [locks EXCEPT !.mu = 0]
       IN  /\ locks' =
                CASE p = "ids" -> [free EXCEPT !.pc[g] = "loop"]
                  [] p \in {"paused", "set", "rm"} -> [free EXCEPT !.pc[g] = locks.back[g]]
                  [] p = "remove" -> [free EXCEPT !.pc[g] = "sleep"]
                  [] p = "read" ->
                        [locks EXCEPT !.readers = @ \ {g},
                                      !.pc[g] = IF JobUnchanged(m, locks.interval[g])
                                                THEN locks.back[g] ELSE "lock_remove"]
           /\ IF p \in {"paused", "remove", "rm"}
              THEN /\ registered' = RegisteredWithout({m})
                   /\ jobs' = MapWithout(jobs, {m})
                   /\ intervals' = MapWithout(intervals, {m})
              ELSE IF p = "set"
              THEN /\ jobs' = Put(jobs, m, locks.job[g])
                   /\ intervals' = Put(intervals, m, locks.interval[g])
                   /\ registered' = registered
              ELSE UNCHANGED <<jobs, intervals, registered>>
    /\ nextJob' = nextJob
    /\ LockFrame

\* lines 637-659: time.Sleep and scheduler.NewJob; an error returns
NewJob(g) ==
    /\ locks.pc[g] = "sleep"
    /\ IF nextJob <= MaxJobs
       THEN /\ registered' = registered \cup
                    {[id |-> nextJob, mon |-> locks.mon[g], interval |-> locks.interval[g]]}
            /\ nextJob' = nextJob + 1
            /\ locks' = [locks EXCEPT !.job[g] = nextJob, !.pc[g] = "lock_set"]
       ELSE /\ UNCHANGED <<registered, nextJob>>
            /\ locks' = [locks EXCEPT !.pc[g] = locks.back[g]]
    /\ UNCHANGED <<jobs, intervals>>
    /\ LockFrame

\* lines 723-731: one round of `for monitorID := range ms.jobs` under the
\* mutex; a key that was deleted is not produced, a key that was added
\* during the loop may be produced or not
SweepStep ==
    /\ locks.pc[1] = "sweep"
    /\ \/ \E id \in DOMAIN jobs \ locks.visited :
            locks' = IF id \in locks.active
                     THEN [locks EXCEPT !.visited = @ \cup {id}]
                     ELSE [locks EXCEPT !.visited = @ \cup {id},
                                        !.mu = HeldInCall(1),
                                        !.mon[1] = id, !.back[1] = "lock_sweep",
                                        !.pc[1] = "lock_rm"]
       \/ /\ (locks.snap \cap DOMAIN jobs) \ locks.visited = {}
          /\ locks' = [locks EXCEPT !.mu = 0, !.pc[1] = "idle"]
    /\ UNCHANGED <<jobs, intervals, registered, nextJob>>
    /\ LockFrame

\* ---- the inputs of the specifications
Ids == 1..MaxMonitors
Names == {"", "svc"}
HttpURL == <<"https://", "h">>
URLs == {<<>>, HttpURL, <<"http://", "h">>, <<"h">>, <<"ping://", "h">>,
         <<"ping://">>, <<"https://">>, <<"https://", "%zz">>}
StatusCodes == {199, 200, 399, 400, 500}
Elapsed == {0, 25}
Outcomes == {Outcome(TRUE, 0, e) : e \in Elapsed}
            \cup {Outcome(FALSE, c, e) : c \in StatusCodes, e \in Elapsed}
Jumps == {2, TwentyFourHours}

ApiNext(urls, ivals) ==
    \/ ApiCreate(Names, urls, ivals)
    \/ \E s \in 1..MaxPuts, id \in Ids : PutBegin(s, id)
    \/ \E s \in 1..MaxPuts, b \in BOOLEAN : PutPause(s, b)
    \/ \E s \in 1..MaxPuts : PutEdit(s, Names, urls, ivals)
    \/ \E id \in Ids : ApiDelete(id)

ProbeNext(outcomes, inserts) ==
    \/ \E s \in DOMAIN probes : ProbeStart(s)
    \/ \E s \in DOMAIN probes : ProbeRequest(s, outcomes)
    \/ \E s \in DOMAIN probes : ProbeInsert(s, inserts)
    \/ \E s \in DOMAIN probes : ProbeCompute(s)
    \/ \E s \in DOMAIN probes : ProbePatch(s)
    \/ \E s \in DOMAIN probes : ProbeFinish(s)

SchedNext ==
    \/ RefreshBegin
    \/ RefreshMonitor
    \/ RefreshNewJob
    \/ RefreshSweep
    \/ \E j \in registered : JobRun(j)

\* The scheduler under every API write and every kind of interval; the probes
\* are of one url that answers 200.
InitSched == InitWith(SchedProbes) /\ subscribing = FALSE
NextSched ==
    \/ ApiNext({<<>>, HttpURL}, {0, 5, 60, 5000})
    \/ ProbeNext({Outcome(FALSE, 200, 25)}, {TRUE})
    \/ SchedNext
SpecSched == InitSched /\ [][NextSched]_vars

\* One probe at a time, of every kind of url with every answer.
InitClassify == InitWith(SchedProbes) /\ subscribing = FALSE
NextClassify ==
    \/ ApiCreate(Names, URLs, {DefaultInterval})
    \/ \E id \in Ids : ApiDelete(id)
    \/ ProbeNext(Outcomes, BOOLEAN)
SpecClassify == InitClassify /\ [][NextClassify]_vars

\* Concurrent probes of one monitor, started by the create handler and by the
\* scheduler's jobs; the url answers 200 or 500.
InitProbe == InitWith(MaxProbes) /\ subscribing = FALSE
NextProbe ==
    \/ ApiCreate(Names, {<<>>, HttpURL}, {DefaultInterval})
    \/ \E id \in Ids : ApiDelete(id)
    \/ ProbeNext({Outcome(FALSE, 200, 25), Outcome(FALSE, 500, 25)}, {TRUE})
    \/ SchedNext
SpecProbe == InitProbe /\ [][NextProbe]_vars

\* Pause and unpause requests against the probes of one monitor, one probe
\* at a time, and a moving clock.
InitPause == InitWith(SchedProbes) /\ subscribing = FALSE
NextPause ==
    \/ ApiCreate(Names, {<<>>, HttpURL}, {DefaultInterval})
    \/ \E s \in 1..MaxPuts, id \in Ids : PutBegin(s, id)
    \/ \E s \in 1..MaxPuts, b \in BOOLEAN : PutPause(s, b)
    \/ Advance(Jumps)
    \/ ProbeNext({Outcome(FALSE, 200, 25), Outcome(FALSE, 500, 25)}, {TRUE})
    \/ SchedNext
SpecPause == InitPause /\ [][NextPause]_vars

\* The scheduler's maps under the API alone.  No step of checkService and no
\* run of a job writes jobs, intervals or the jobs gocron holds, so the
\* goroutines the handlers start are left waiting here; each monitor's has
\* a slot.
EditIntervals == {30, DefaultInterval}
InitJobs == InitWith(MaxMonitors) /\ subscribing = FALSE
NextJobs ==
    \/ ApiCreate({"svc"}, {HttpURL}, {DefaultInterval})
    \/ \E id \in Ids : PutBegin(1, id)
    \/ \E b \in BOOLEAN : PutPause(1, b)
    \/ PutEdit(1, {"svc"}, {HttpURL}, EditIntervals)
    \/ \E id \in Ids : ApiDelete(id)
    \/ RefreshBegin \/ RefreshMonitor \/ RefreshNewJob \/ RefreshSweep
SpecJobs == InitJobs /\ [][NextJobs]_vars

\* Overlapping probes of a monitor under a clock that moves between their
\* steps.
InitOrder == InitWith(MaxProbes) /\ subscribing = FALSE
NextOrder ==
    \/ ApiCreate(Names, {HttpURL}, {DefaultInterval})
    \/ Advance(Jumps)
    \/ ProbeNext({Outcome(FALSE, 200, 25)}, {TRUE})
    \/ SchedNext
SpecOrder == InitOrder /\ [][NextOrder]_vars

\* The broadcaster with subscribers that connect, read and leave, fed by
\* the create handler and by the deletion of the first monitor.
InitFanout == InitWith(MaxMonitors) /\ subscribing = TRUE
NextFanout ==
    \/ ApiCreate({"svc"}, {HttpURL}, {DefaultInterval})
    \/ ApiDelete(1)
    \/ Connect
    \/ \E c \in clients : Disconnect(c)
    \/ \E c \in clients : Receive(c)
    \/ \E g \in casts : CastBegin(g)
    \/ \E g \in casts, c \in clients : CastSend(g, c)
    \/ \E g \in casts : CastEnd(g)
SpecFanout == InitFanout /\ [][NextFanout]_vars

\* Probes of a monitor that finish one after the other, with subscribers.
InitRelay == InitWith(SchedProbes) /\ subscribing = TRUE
NextRelay ==
    \/ ApiCreate({"svc"}, {HttpURL}, {DefaultInterval})
    \/ ProbeNext({Outcome(FALSE, 200, 25)}, {TRUE})
    \/ SchedNext
    \/ Connect
    \/ \E c \in clients : Receive(c)
    \/ \E g \in casts : CastBegin(g)
    \/ \E g \in casts, c \in clients : CastSend(g, c)
    \/ \E g \in casts : CastEnd(g)
SpecRelay == InitRelay /\ [][NextRelay]_vars

\* The debounce timer and its callbacks under a monitor that is probed,
\* paused and resumed; nobody subscribes.
InitDebounce == InitWith(SchedProbes) /\ subscribing = FALSE
NextDebounce ==
    \/ ApiCreate({"svc"}, {HttpURL}, {DefaultInterval})
    \/ \E s \in DOMAIN puts, id \in Ids : PutBegin(s, id)
    \/ \E s \in DOMAIN puts, b \in BOOLEAN : PutPause(s, b)
    \/ ProbeNext({Outcome(FALSE, 200, 25)}, {TRUE})
    \/ TimerFire
    \/ \E k \in DOMAIN callbacks : CallbackStats(k)
    \/ \E k \in DOMAIN callbacks : CallbackDecide(k)
    \/ \E k \in DOMAIN callbacks : CallbackPublish(k)
SpecDebounce == InitDebounce /\ [][NextDebounce]_vars

\* The daily cleanup job over a check_histories table of samples of every
\* age around its three bounds, of two monitors, up and down.
StartTime == 600010
SeedAges == {0, 1440, 1441, 1450, 10080, 10081, 525601}
SeedMonitors == {1, 2}
SeedSamples ==
    {[monitor_id |-> m, status |-> st,
      response_time |-> IF st = "up" THEN 25 ELSE 0,
      created_at |-> StartTime - a, while_paused |-> FALSE] :
        m \in SeedMonitors, st \in {"up", "down"}, a \in SeedAges}
RECURSIVE SeqsUpTo(_, _)
SeqsUpTo(S, n) ==
    IF n = 0 THEN {<<>>}
    ELSE SeqsUpTo(S, n - 1)
            \cup {Append(q, x) : q \in {r \in SeqsUpTo(S, n - 1) : Len(r) = n - 1}, x \in S}
InitRetention ==
    /\ \E samples \in SeqsUpTo(SeedSamples, MaxSamples) :
        InitFrom(SchedProbes, samples, StartTime)
    /\ subscribing = FALSE
NextRetention ==
    \/ CleanOldCheckHistory(BOOLEAN)
    \/ BucketAggregate(BOOLEAN)
    \/ BucketBatch(BOOLEAN)
    \/ BucketDelete(BOOLEAN)
SpecRetention == InitRetention /\ [][NextRetention]_vars

\* Restarts of the server over a monitors.yaml that the operator rewrites
\* between them: entries that share name and url, an entry without a name,
\* an empty list, and no file.
MaxEntries == 2
SvcEntry == MonitorConfig("svc", HttpURL, "", 0, FALSE, FALSE)
SvcEvery30 == MonitorConfig("svc", HttpURL, "", 30, FALSE, FALSE)
Nameless == MonitorConfig("", HttpURL, "", 0, FALSE, FALSE)
Files ==
    {NoFile} \cup {File(e) : e \in SeqsUpTo({SvcEntry, SvcEvery30, Nameless}, MaxEntries)}
InitSync == InitWith(SchedProbes) /\ subscribing = FALSE
NextSync ==
    \/ WriteYAML(Files)
    \/ SyncLoad(BOOLEAN)
    \/ SyncSeed({TRUE})
    \/ SyncEntry({TRUE})
    \/ SyncRemove({TRUE})
    \/ SyncEnd
    \/ ProbeNext({Outcome(FALSE, 200, 25)}, {TRUE})
SpecSync == InitSync /\ [][NextSync]_vars

\* Restarts of the server between which monitors are created over the API,
\* with the name and url of a YAML entry.
OwnedFiles == {NoFile, File(<<SvcEntry>>), File(<<SvcEntry, SvcEvery30>>)}
InitOwned == InitWith(SchedProbes) /\ subscribing = FALSE
NextOwned ==
    \/ sync.pc = "idle" /\ ApiCreate({"svc"}, {HttpURL}, {DefaultInterval})
    \/ WriteYAML(OwnedFiles)
    \/ SyncLoad({TRUE})
    \/ SyncSeed({TRUE})
    \/ SyncEntry({TRUE})
    \/ SyncRemove({TRUE})
    \/ SyncEnd
    \/ ProbeNext({Outcome(FALSE, 200, 25)}, {TRUE})
SpecOwned == InitOwned /\ [][NextOwned]_vars

\* A create request whose probe goroutine runs beside the rest of the handler,
\* probes that always reach their end, and deletes.
OutcomesUpDown == {Outcome(FALSE, 200, 25), Outcome(FALSE, 500, 25), Outcome(TRUE, 0, 25)}
InitCreate == InitWith(SchedProbes) /\ subscribing = FALSE
NextCreate ==
    \/ PostCreate({"svc"}, {HttpURL, <<"ping://", "h">>}, {0, 30, DefaultInterval})
    \/ \E id \in Ids : PostPublish(id)
    \/ \E id \in Ids : id \in DOMAIN monitors /\ ApiDelete(id)
    \/ ProbeNext(OutcomesUpDown, {TRUE})
\* every goroutine the Go runtime holds is eventually scheduled
FairCreate ==
    /\ \A id \in Ids : WF_vars(PostPublish(id))
    /\ \A s \in 1..SchedProbes :
        /\ WF_vars(ProbeStart(s))
        /\ WF_vars(ProbeRequest(s, OutcomesUpDown))
        /\ WF_vars(ProbeInsert(s, {TRUE}))
        /\ WF_vars(ProbeCompute(s))
        /\ WF_vars(ProbePatch(s))
        /\ WF_vars(ProbeFinish(s))
SpecCreate == InitCreate /\ [][NextCreate]_vars /\ FairCreate

\* Pauses and unpauses of one monitor beside the refresh ticker and the jobs of
\* gocron.  Every new job takes a fresh job id, so a pause is accepted only
\* while ids are left for the jobs that the monitors can still come to need.
JobsLeft == MaxJobs + 1 - nextJob
JobsNeeded(pausing) ==
    LET after == {m \in DOMAIN monitors : monitors[m].paused} \cup pausing IN
    Cardinality(after \cup (DOMAIN monitors \ DOMAIN jobs))
        + (IF ref.pc = "sleep" /\ ref.mon \in after THEN 1 ELSE 0)
JobRecords == [id : 1..MaxJobs, mon : {1}, interval : {30}]
InitUnpause == InitWith(SchedProbes) /\ subscribing = FALSE
NextUnpause ==
    \/ nextID = 1 /\ ApiCreate({"svc"}, {HttpURL}, {30})
    \/ \E id \in Ids : id \in DOMAIN monitors /\ PutBegin(1, id)
    \/ puts[1].pc = "read" /\ JobsNeeded({puts[1].id}) <= JobsLeft /\ PutPause(1, TRUE)
    \/ PutPause(1, FALSE)
    \/ ProbeNext({Outcome(FALSE, 200, 25)}, {FALSE})
    \/ RefreshBegin \/ RefreshMonitor \/ RefreshNewJob \/ RefreshSweep
    \/ \E j \in registered : JobRun(j)
\* the ticker of startChecker fires every 30 s, gocron runs every job it holds
\* at its interval, and every goroutine is eventually scheduled
FairUnpause ==
    /\ WF_vars(RefreshBegin) /\ WF_vars(RefreshMonitor)
    /\ WF_vars(RefreshNewJob) /\ WF_vars(RefreshSweep)
    /\ \A j \in JobRecords : WF_vars(JobRun(j))
    /\ \A s \in 1..SchedProbes :
        /\ WF_vars(ProbeStart(s))
        /\ WF_vars(ProbeRequest(s, {Outcome(FALSE, 200, 25)}))
        /\ WF_vars(ProbeInsert(s, {FALSE}))
        /\ WF_vars(ProbeCompute(s))
        /\ WF_vars(ProbePatch(s))
        /\ WF_vars(ProbeFinish(s))
SpecUnpause == InitUnpause /\ [][NextUnpause]_vars /\ FairUnpause

\* Deletes over the API and by the reconciler at a restart, of a monitor that
\* has samples of the last day and of the day before and, once the cleanup job
\* has run, an hourly bucket.  The samples are those stored before the start:
\* the probes that the creates and updates start run to their end with their
\* insert refused.
OldSample ==
    [monitor_id |-> 1, status |-> "up", response_time |-> 25,
     created_at |-> StartTime - TwentyFourHours - Hour, while_paused |-> FALSE]
NewSample ==
    [monitor_id |-> 1, status |-> "down", response_time |-> 0,
     created_at |-> StartTime - Hour, while_paused |-> FALSE]
\* the server is up and the cleanup job is not under way; no probe runs either
Serving == sync.pc = "idle" /\ retention.pc = "idle"
Quiet == Serving /\ \A s \in DOMAIN probes : probes[s].pc = "idle"
InitRemoval ==
    /\ \E samples \in {<<>>, <<OldSample, NewSample>>} :
        InitFrom(SchedProbes, samples, StartTime)
    /\ subscribing = FALSE
NextRemoval ==
    \/ Serving /\ ApiCreate({"svc"}, {HttpURL}, {DefaultInterval})
    \/ \E id \in Ids : Serving /\ id \in DOMAIN monitors /\ ApiDelete(id)
    \/ WriteYAML(OwnedFiles)
    \/ retention.pc = "idle" /\ SyncLoad({TRUE})
    \/ SyncSeed({TRUE})
    \/ SyncEntry({TRUE})
    \/ SyncRemove({TRUE})
    \/ SyncEnd
    \/ Quiet /\ CleanOldCheckHistory({TRUE})
    \/ BucketAggregate({TRUE})
    \/ BucketBatch({TRUE})
    \/ BucketDelete({TRUE})
    \/ retention.pc = "idle" /\ ProbeNext({Outcome(FALSE, 200, 25)}, {FALSE})
SpecRemoval == InitRemoval /\ [][NextRemoval]_vars

\* Requests of every method with every kind of id parameter and body, with a
\* subscriber-less event bus that records the publications.
IdParams == {"", "abc", "1", "9"}
NoBody == Body("garbage", FALSE, "", <<>>, 0)
Bodies ==
    {NoBody,
     Body("pause", TRUE, "", <<>>, 0),
     Body("edit", FALSE, "svc", HttpURL, 0),
     Body("edit", FALSE, "web", HttpURL, 30),
     Body("edit", FALSE, "", HttpURL, 30),
     Body("edit", FALSE, "svc", <<>>, 30)}
Requests ==
    {Request("POST", "", body) : body \in Bodies}
        \cup {Request(method, id, NoBody) : method \in {"GET", "PUT", "DELETE"}, id \in IdParams}
        \cup {Request("PUT", "1", body) : body \in Bodies}
\* no broadcast is waiting and no probe is in flight
Resting == casts = {} /\ \A s \in DOMAIN probes : probes[s].pc = "idle"
InitRefuse == InitWith(SchedProbes) /\ subscribing = TRUE
NextRefuse ==
    \/ \E req \in Requests :
        (\A s \in DOMAIN probes : probes[s].pc = "idle") /\ Serve(req)
    \/ \E g \in casts : CastBegin(g)
    \/ casts = {} /\ ProbeNext({Outcome(FALSE, 200, 25)}, {TRUE})
SpecRefuse == InitRefuse /\ [][NextRefuse]_vars

\* Edits and pauses of a monitor while the probe started at its creation is
\* in flight.
InitPatch == InitWith(SchedProbes) /\ subscribing = FALSE
NextPatch ==
    \/ ApiCreate({"svc"}, {HttpURL}, {DefaultInterval})
    \/ \E id \in Ids : id \in DOMAIN monitors /\ PutBegin(1, id)
    \/ \E b \in BOOLEAN : PutPause(1, b)
    \/ PutEdit(1, {"web"}, {<<"http://", "h">>}, {30})
    \/ ProbeNext({Outcome(FALSE, 200, 25), Outcome(FALSE, 500, 25)}, {TRUE})
SpecPatch == InitPatch /\ [][NextPatch]_vars

\* Probes whose sample insert the database refuses or accepts, started by the
\* create handler and by the scheduler's job, on an event bus that records
\* the publications.  One monitor, one probe at a time, and the scheduler
\* works between the probes.
InitRefused == InitWith(SchedProbes) /\ subscribing = TRUE
NextRefused ==
    \/ nextID = 1 /\ ApiCreate({"svc"}, {HttpURL}, {DefaultInterval})
    \/ casts = {} /\ ProbeNext({Outcome(FALSE, 200, 25), Outcome(FALSE, 500, 25)}, BOOLEAN)
    \/ Resting /\ (RefreshBegin \/ RefreshMonitor \/ RefreshNewJob \/ RefreshSweep)
    \/ \E j \in registered : Resting /\ JobRun(j)
    \/ \E g \in casts : CastBegin(g)
SpecRefused == InitRefused /\ [][NextRefused]_vars

\* Goroutines call broadcastStatsIfChanged one into the other while the timers
\* they arm run out.
InitBurst == InitWith(SchedProbes) /\ subscribing = FALSE
NextBurst ==
    \/ \E c \in 1..MaxCallers : CallArrive(c)
    \/ \E c \in 1..MaxCallers : CallLock(c)
    \/ \E c \in 1..MaxCallers : CallStop(c)
    \/ \E c \in 1..MaxCallers : CallArm(c)
    \/ \E t \in 1..MaxTimers : Fire(t)
SpecBurst == InitBurst /\ [][NextBurst]_vars

\* Subscribers connect and read while removeClient is called for any id, the
\* ids of connected, of removed and of unknown clients, and the create and
\* delete handlers publish.
InitLeave == InitWith(MaxMonitors) /\ subscribing = TRUE
NextLeave ==
    \/ nextID = 1 /\ ApiCreate({"svc"}, {HttpURL}, {DefaultInterval})
    \/ ApiDelete(1)
    \/ Connect
    \/ \E id \in 1..MaxClients : RemoveClient(id)
    \/ \E c \in clients : Receive(c)
    \/ \E g \in casts : CastBegin(g)
    \/ \E g \in casts, c \in 1..MaxClients : CastSend(g, c)
    \/ \E g \in casts : CastEnd(g)
SpecLeave == InitLeave /\ [][NextLeave]_vars

\* One run of the daily job over samples between 24 hours and 7 days old
\* that fall into up to three hours, which makes two batches, any of which
\* may fail.
BatchAges == {TwentyFourHours + 10, TwentyFourHours + Hour + 10, TwentyFourHours + 2 * Hour + 10}
BatchSamples ==
    {[monitor_id |-> 1, status |-> st,
      response_time |-> IF st = "up" THEN 25 ELSE 0,
      created_at |-> StartTime - a, while_paused |-> FALSE] :
        st \in {"up", "down"}, a \in BatchAges}
InitBatches ==
    /\ \E samples \in SeqsUpTo(BatchSamples, BatchSize + 1) :
        InitFrom(SchedProbes, samples, StartTime)
    /\ subscribing = FALSE
NextBatches ==
    \/ CleanOldCheckHistory({TRUE})
    \/ BucketAggregate({TRUE})
    \/ BucketBatch(BOOLEAN)
    \/ BucketDelete({TRUE})
SpecBatches == InitBatches /\ [][NextBatches]_vars

\* A monitor is created, probed and deleted while its probe may be in
\* flight, with a subscriber that connects and reads.
InitGone == InitWith(SchedProbes) /\ subscribing = TRUE
NextGone ==
    \/ nextID = 1 /\ ApiCreate({"svc"}, {HttpURL}, {DefaultInterval})
    \/ ApiDelete(1)
    \/ ProbeNext({Outcome(FALSE, 200, 25)}, {TRUE})
    \/ Connect
    \/ \E c \in clients : Receive(c)
    \/ \E g \in casts : CastBegin(g)
    \/ \E g \in casts, c \in clients : CastSend(g, c)
    \/ \E g \in casts : CastEnd(g)
SpecGone == InitGone /\ [][NextGone]_vars

\* Passes of refreshScheduler over a store whose monitor is created and
\* deleted, while another goroutine calls addMonitorJob and removeMonitorJob
\* and gocron runs the jobs it holds.
InitLocks == InitWith(SchedProbes) /\ subscribing = FALSE
NextLocks ==
    \/ nextID = 1 /\ ApiCreate({"svc"}, {HttpURL}, {DefaultInterval})
    \/ ApiDelete(1)
    \/ \E j \in registered : locks.mu # 0 /\ JobRun(j)
    \/ PassBegin
    \/ LoopStep
    \/ SweepStep
    \/ \E g \in Goroutines : Call(g)
    \/ \E g \in Goroutines : Acquire(g)
    \/ \E g \in Goroutines : Release(g)
    \/ \E g \in Goroutines : NewJob(g)
FairLocks ==
    /\ WF_vars(LoopStep) /\ WF_vars(SweepStep)
    /\ \A g \in Goroutines :
        WF_vars(Acquire(g)) /\ WF_vars(Release(g)) /\ WF_vars(NewJob(g))
SpecLocks == InitLocks /\ [][NextLocks]_vars /\ FairLocks

\* ---- properties ------------------------------------------------------------

\* a checkService execution between loading the row and writing its patch
InFlight(s) == probes[s].pc \in {"check", "stamped", "inserted", "computed"}
InFlightOf(m) == {s \in DOMAIN probes : InFlight(s) /\ probes[s].mon = m}

\* C1: in every reachable state each monitor has at most one checkService
\* execution in flight, whichever of the create handler and the scheduler's
\* jobs started it.
C1_OneProbeInFlight == \A m \in Ids : Cardinality(InFlightOf(m)) <= 1

\* C2: no sample of a monitor is inserted while its stored row is paused,
\* that is between the commit of paused=true and the next commit of
\* paused=false.
C2_NoSampleWhilePaused == \A i \in 1..Len(histories) : ~histories[i].while_paused

\* C3: every stored monitor has check_interval in [10, 3600].
C3_IntervalInRange ==
    \A m \in DOMAIN monitors :
        /\ monitors[m].check_interval >= MinInterval
        /\ monitors[m].check_interval <= MaxInterval

Clamp(ci) == IF ci < MinInterval THEN MinInterval
             ELSE IF ci > MaxInterval THEN MaxInterval ELSE ci

\* a step that completes a refreshScheduler pass
PassCompletes == ref.pc = "loop" /\ ref.idx > Len(ref.list) /\ ref'.pc = "idle"

Unpaused == {m \in DOMAIN monitors : ~monitors[m].paused}

\* C5: when a refreshScheduler pass completes during which no monitor was
\* created, edited, paused or deleted, the scheduler has a job exactly for
\* the stored unpaused monitors, each recorded with the interval
\* clamp(check_interval, 10..3600).
C5_PassReconciles ==
    [][(PassCompletes /\ ~dirty) =>
        /\ DOMAIN jobs' = Unpaused
        /\ \A m \in Unpaused :
              intervals'[m] = Clamp(monitors[m].check_interval)]_vars

\* a step of the pass that handles the stored, unpaused monitor m that has a job
HandlesJobOf(m) ==
    /\ ref.pc = "loop" /\ ref.idx <= Len(ref.list) /\ ref' # ref
    /\ ref.list[ref.idx] = m
    /\ m \in Unpaused /\ m \in DOMAIN jobs

\* C6: a pass that finds the stored check_interval of an unpaused monitor
\* different from the interval of its job removes that job and registers a
\* new one with the stored interval; a pass that finds it equal leaves the
\* job untouched; after a pass without concurrent writes the recorded
\* interval of every unpaused monitor is its stored check_interval.
C6_IntervalChangeReplacesJob ==
    [][/\ \A m \in Ids : HandlesJobOf(m) =>
            IF intervals[m] = monitors[m].check_interval
            THEN jobs' = jobs /\ intervals' = intervals /\ registered' = registered
            ELSE /\ \A j \in registered' : j.mon # m
                 /\ m \notin DOMAIN jobs'
                 /\ ref'.pc = "sleep" /\ ref'.mon = m
                 /\ ref'.interval = monitors[m].check_interval
       /\ (ref.pc = "sleep" /\ ref'.pc = "loop") =>
            /\ ref.mon \in DOMAIN jobs'
            /\ intervals'[ref.mon] = ref.interval
            /\ \E j \in registered' \ registered :
                  j = [id |-> jobs'[ref.mon], mon |-> ref.mon, interval |-> ref.interval]
       /\ (PassCompletes /\ ~dirty) =>
            \A m \in Unpaused :
                m \in DOMAIN intervals' /\ intervals'[m] = monitors[m].check_interval
      ]_vars

\* C6's case: the job of a monitor edited from one interval to another has
\* been replaced by a job with the edited interval.
C6_EditedJobReplaced ==
    /\ ref.pc = "loop" /\ ref.mon \in DOMAIN intervals
    /\ ref.old # 0 /\ ref.old # ref.interval
    /\ intervals[ref.mon] = ref.interval
    /\ ref.mon \in Unpaused /\ monitors[ref.mon].check_interval = ref.interval

\* a probe that has classified its url
Classified(s) == probes[s].pc = "inserted"

\* C7: a probe of a ping:// url ends with status up and response time 10 and
\* sends no HTTP request, whatever follows the prefix.
C7_PingIsUp ==
    \A s \in DOMAIN probes :
        (Classified(s) /\ HasPrefix(probes[s].url, "ping://")) =>
            /\ probes[s].status = "up"
            /\ probes[s].rt = PingResponseTime
            /\ ~probes[s].requested

HttpLike(url) == ~HasPrefix(url, "ping://") /\ ~ParseErr(url)
HostOf(url) == ParseHost(ServiceURL(url))

\* C8: a probe of an http://, https:// or scheme-less url with a host is up
\* exactly when a response with a status code in [200, 400) came back; a
\* transport error gives down with latency 0; a url without a host gives
\* down with latency 0 and no request.
C8_HttpClassification ==
    \A s \in DOMAIN probes :
        (Classified(s) /\ HttpLike(probes[s].url)) =>
            IF HostOf(probes[s].url) # <<>>
            THEN /\ probes[s].requested
                 /\ probes[s].status \in {"up", "down"}
                 /\ probes[s].status = "up" <=>
                        (probes[s].code >= 200 /\ probes[s].code < 400)
                 /\ probes[s].code = 0 => probes[s].rt = 0
            ELSE /\ probes[s].status = "down"
                 /\ probes[s].rt = 0
                 /\ ~probes[s].requested

\* C8's case: a response at the upper edge of the range was classified.
C8_Classified399 ==
    \E s \in DOMAIN probes :
        /\ Classified(s) /\ probes[s].url = <<"h">>
        /\ probes[s].code = 399 /\ probes[s].status = "up"

\* C9: a monitor row with status down has response_time 0.
C9_DownHasZeroResponseTime ==
    \A m \in DOMAIN monitors :
        monitors[m].status = "down" => monitors[m].response_time = 0

\* the samples of m in the 24 h before t
Preceding(m, t) ==
    {i \in 1..Len(histories) :
        /\ histories[i].monitor_id = m
        /\ histories[i].created_at > t - TwentyFourHours
        /\ histories[i].created_at <= t}

\* C10: when no probe of a monitor is in flight and it has a sample in the
\* 24 h before its latest probe, its stored uptime is 100 * up / total over
\* those samples.
C10_UptimeMatchesSamples ==
    \A m \in DOMAIN monitors \cap DOMAIN lastProbe :
        (InFlightOf(m) = {} /\ Preceding(m, lastProbe[m]) # {}) =>
            monitors[m].uptime =
                Percent(Cardinality({i \in Preceding(m, lastProbe[m]) : histories[i].status = "up"}),
                        Cardinality(Preceding(m, lastProbe[m])))

\* C11: each sample inserted for a monitor carries a created_at strictly
\* greater than that of every sample inserted for it before (histories is
\* in insertion order).
C11_SampleTimesIncrease ==
    \A i, j \in 1..Len(histories) :
        (i < j /\ histories[i].monitor_id = histories[j].monitor_id) =>
            histories[i].created_at < histories[j].created_at

\* the columns of a monitor row other than paused and updated_at
FrameColumns ==
    {"name", "url", "icon", "check_interval", "is_third_party", "config_hash",
     "status", "response_time", "uptime", "last_check", "created_at"}

\* C12: a PUT whose body carries paused changes only paused and updated_at
\* of the stored row; every other column keeps the value the store held
\* immediately before the write.
C12_PauseChangesOnlyPaused ==
    [][\A s \in DOMAIN puts :
          ((\E b \in BOOLEAN : PutPause(s, b)) /\ puts[s].id \in DOMAIN monitors) =>
              \A c \in FrameColumns :
                  monitors'[puts[s].id][c] = monitors[puts[s].id][c]]_vars

\* the messages on the channel of client c
Queued(c) == {queues[c][i] : i \in 1..Len(queues[c])}

\* C13: in a broadcast, a subscriber whose queue is full loses that message
\* only and stays connected with its queue as it was, every other subscriber
\* whose queue has room gets the message appended, and the send to a
\* subscriber is possible whether its queue is full or not.
C13_DropOnFull ==
    /\ [](\A g \in casts : g.pc = "sending" =>
            \A c \in g.rest : ENABLED CastSend(g, c))
    /\ [][\A g \in casts, c \in clients : CastSend(g, c) =>
            /\ clients' = clients
            /\ \A d \in clients \ {c} : queues'[d] = queues[d]
            /\ IF QLen(c) = QueueCap
               THEN queues'[c] = queues[c]
               ELSE queues'[c] = Append(queues[c], g.msg)
            /\ \A h \in casts' : h.msg = g.msg =>
                    /\ c \in h.dropped <=> QLen(c) = QueueCap
                    /\ c \in h.sent <=> QLen(c) < QueueCap
                    /\ h.dropped \ {c} = g.dropped /\ h.sent \ {c} = g.sent]_vars
    /\ [][\A g \in casts : CastEnd(g) =>
            \A c \in clients : c \in g.dropped \/ c \in g.sent]_vars

\* C13's case: a broadcast found one subscriber's queue full and another's
\* with room; the first is still connected with its queue full of earlier
\* messages, the second holds the message.
C13_DroppedForOneOnly ==
    \E g \in casts : \E c, d \in clients :
        /\ c \in g.dropped /\ QLen(c) = QueueCap /\ g.msg \notin Queued(c)
        /\ d # c /\ d \in g.sent /\ g.msg \in Queued(d)

\* C14: of two monitor_update messages of one monitor, the one whose
\* broadcastUpdate call came first (the lower seq) is put on a subscriber's
\* queue first: no message is enqueued for a subscriber that already got a
\* later one of the same monitor (stated for the broadcasts still running).
C14_UpdatesInCallOrder ==
    [][\A g \in casts, c \in clients :
          (CastSend(g, c) /\ QLen(c) < QueueCap /\ g.msg.type = "monitor_update") =>
              ~\E h \in casts :
                  /\ h.msg.type = "monitor_update" /\ h.msg.mon = g.msg.mon
                  /\ h.msg.seq > g.msg.seq
                  /\ c \in h.sent]_vars

\* C15: the debounce callback publishes a stats_update only when none was
\* published before or one of the four values differs from the stats
\* published last, so that no two consecutive publications carry four equal
\* values, also when two callbacks run concurrently.
C15_PublishedStatsDiffer ==
    /\ [][\A k \in DOMAIN callbacks :
            CallbackPublish(k) =>
                \/ ~published.any
                \/ Changed(published.last, callbacks[k].stats)]_vars
    /\ [](~published.repeat)
\* C16: whenever the store holds no unpaused monitor, getStats returns 0 for
\* overallUptime, servicesUp, servicesDown and avgResponseTime, whatever
\* samples check_histories holds.
C16_NoUnpausedAllZero ==
    UnpausedRows = {} =>
        /\ GetStats(now).overallUptime = 0
        /\ GetStats(now).servicesUp = 0
        /\ GetStats(now).servicesDown = 0
        /\ GetStats(now).avgResponseTime = 0
\* a run of the cleanup job has completed with every query, batch and
\* DELETE succeeding
RunCompleted ==
    /\ retention.pc = "idle"
    /\ retention.runs > 0
    /\ ~retention.failed
    /\ retention.deleted

\* C17: after a retention run has completed, no raw sample the run
\* aggregated into a bucket (created_at in [now - 7 days, now - 24 hours))
\* is still in check_histories, and the number of raw samples has dropped.
C17_CompactedSamplesRemoved ==
    (RunCompleted /\ retention.upserted # {}) =>
        /\ InWindow(histories, retention.cutoffTime, retention.sevenDaysAgo) = {}
        /\ Len(histories) < Len(retention.table)
\* the keys the run upserted for monitor m, and the samples of m that the
\* run's aggregation found in its window
UpsertedOf(m) == {k \in retention.upserted : k[1] = m}
WindowOf(m) ==
    {i \in InWindow(retention.table, retention.cutoffTime, retention.sevenDaysAgo) :
        retention.table[i].monitor_id = m}

\* C18: after a retention run in which every batch committed, for every
\* monitor the total_checks of the buckets the run upserted sum to the
\* number of the monitor's samples in [now - 7 days, now - 24 hours), and
\* their up_checks sum to the number of those samples with status up.
C18_BucketsSumToSamples ==
    RunCompleted =>
        \A m \in SeedMonitors :
            /\ SumOf([k \in UpsertedOf(m) |-> buckets[k].total_checks], UpsertedOf(m))
                    = Cardinality(WindowOf(m))
            /\ SumOf([k \in UpsertedOf(m) |-> buckets[k].up_checks], UpsertedOf(m))
                    = Cardinality({i \in WindowOf(m) : retention.table[i].status = "up"})

\* a completed run that put two samples of one monitor, one of them up, into
\* one bucket
C18_BucketOfTwoUpserted ==
    /\ RunCompleted
    /\ \E k \in retention.upserted :
        /\ buckets[k].total_checks = 2
        /\ buckets[k].up_checks = 1
\* the hashes of the valid entries of the file a run read
FileHashes(file) ==
    {CalculateConfigHash(file.monitors[n]) :
        n \in {k \in 1..Len(file.monitors) : ValidEntry(file.monitors[k])}}

SyncCompleted == sync.pc = "idle" /\ sync.runs > 0

\* C19: a run of syncYAMLConfig that follows a run against the same YAML
\* file of valid entries, with no write to the stored configuration in
\* between, changes nothing: it creates, updates and deletes no monitor and
\* emits no monitor_added, monitor_update or monitor_deleted.
C19_SecondSyncChangesNothing ==
    ( /\ SyncCompleted
      /\ sync.prev.any
      /\ sync.readOK /\ sync.prev.readOK
      /\ sync.file = sync.prev.file
      /\ sync.file.exists
      /\ \A n \in 1..Len(sync.file.monitors) : ValidEntry(sync.file.monitors[n])
      /\ sync.before = sync.prev.after )
    => /\ ~sync.changed
       /\ sync.emitted = {}
       /\ sync.after = sync.before

\* C20: after every run of syncYAMLConfig that read the file without error,
\* every stored monitor with a non-empty config_hash has the hash of a valid
\* entry of the file, and every monitor that had a non-empty hash absent
\* from the file when the run began has been deleted with monitor_deleted
\* emitted.
C20_StoredHashesAreInFile ==
    (SyncCompleted /\ sync.readOK) =>
        /\ \A m \in DOMAIN monitors :
            monitors[m].config_hash # "" =>
                monitors[m].config_hash \in FileHashes(sync.file)
        /\ \A m \in DOMAIN sync.before :
            (sync.before[m][7] # "" /\ sync.before[m][7] \notin FileHashes(sync.file))
                => /\ m \notin DOMAIN monitors
                   /\ "monitor_deleted" \in sync.emitted
\* the valid entries of the file a run read that carry the name and url of
\* a stored configuration
EntriesFor(file, config) ==
    {file.monitors[n] :
        n \in {k \in 1..Len(file.monitors) :
                /\ ValidEntry(file.monitors[k])
                /\ file.monitors[k].name = config[1]
                /\ file.monitors[k].url = config[2]}}

\* the monitors stored with a hash when the run began, for which the file
\* holds one entry with their name and url, and that with another hash
Edited ==
    {m \in DOMAIN sync.before :
        /\ sync.before[m][7] # ""
        /\ Cardinality(EntriesFor(sync.file, sync.before[m])) = 1
        /\ \A e \in EntriesFor(sync.file, sync.before[m]) :
                CalculateConfigHash(e) # sync.before[m][7]}

\* C21: a stored YAML-owned monitor whose entry (same name and url) has
\* another hash exists after syncYAMLConfig returns, under the same id, with
\* the entry's policy fields and hash, not duplicated; the reconciler's
\* write leaves created_at, status, uptime, response_time and last_check
\* as they were.
C21_EditedEntryUpdatedInPlace ==
    /\ [][\A m \in DOMAIN monitors :
            (SyncEntry({TRUE}) /\ m \in DOMAIN monitors'
                /\ monitors'[m].config_hash # monitors[m].config_hash)
            => \A c \in {"created_at", "status", "uptime", "response_time", "last_check"} :
                    monitors'[m][c] = monitors[m][c]]_vars
    /\ []((SyncCompleted /\ sync.readOK) =>
            \A m \in Edited :
                /\ m \in DOMAIN monitors
                /\ \A e \in EntriesFor(sync.file, sync.before[m]) :
                        ConfigOf(monitors[m]) = ConfigOf(MonitorOf(e))
                /\ Cardinality({n \in DOMAIN monitors :
                        /\ monitors[n].name = sync.before[m][1]
                        /\ monitors[n].url = sync.before[m][2]}) = 1)
\* C22: no step of syncYAMLConfig updates or deletes a monitor whose
\* config_hash is empty, and none creates a monitor with the name and url of
\* such a monitor.
C22_UnownedLeftAlone ==
    [][sync' # sync =>
        /\ \A m \in DOMAIN monitors :
            monitors[m].config_hash = "" =>
                m \in DOMAIN monitors' /\ monitors'[m] = monitors[m]
        /\ \A n \in DOMAIN monitors' \ DOMAIN monitors :
            ~\E m \in DOMAIN monitors :
                /\ monitors[m].config_hash = ""
                /\ monitors[m].name = monitors'[n].name
                /\ monitors[m].url = monitors'[n].url]_vars

\* a run read a file with an entry that has the name and url of a monitor
\* stored without hash, and has returned
C22_EntryOfUnownedSkipped ==
    /\ SyncCompleted
    /\ sync.readOK
    /\ \E m \in DOMAIN monitors \cap DOMAIN sync.before :
        /\ monitors[m].config_hash = ""
        /\ EntriesFor(sync.file, sync.before[m]) # {}
        /\ Cardinality(DOMAIN monitors) = Cardinality(DOMAIN sync.before)
\* C23: a run of syncYAMLConfig over a file that exists and cannot be parsed
\* leaves table monitors as it was: nothing is created, updated, deleted or
\* seeded, whatever the database held, an empty database included.
C23_UnparsableFileChangesNothing ==
    (SyncCompleted /\ sync.file.exists /\ ~sync.readOK) =>
        /\ ~sync.changed
        /\ sync.emitted = {}
        /\ sync.after = sync.before

\* the first probe of monitor m has run to its end
ProbedOnce(m) ==
    /\ m \in DOMAIN lastProbe
    /\ \A s \in DOMAIN probes : probes[s].mon # m \/ probes[s].pc = "idle"

\* C24: after a successful create, monitor_added is published, and unless the
\* monitor is deleted a probe of it completes: one sample of it exists, its
\* status is up or down, last_check is "just now", and the probe's
\* monitor_update is published after the monitor_added was
C24_CreatedMonitorIsProbed ==
    /\ [][\A s \in DOMAIN probes :
            (ProbeFinish(s) /\ probes[s].mon \in DOMAIN monitors)
                => probes[s].mon \notin posts]_vars
    /\ \A m \in Ids :
        [](m \in DOMAIN monitors =>
            <>(\/ m \notin DOMAIN monitors
               \/ /\ m \notin posts
                  /\ ProbedOnce(m)
                  /\ Cardinality({i \in DOMAIN histories : histories[i].monitor_id = m}) = 1
                  /\ monitors[m].status \in {"up", "down"}
                  /\ monitors[m].last_check = LastCheck(now, now)))

\* monitor m is stored and not paused
Running(m) == m \in DOMAIN monitors /\ ~monitors[m].paused

\* a checkService execution loads monitor m and passes the paused check
StartsProbe(m) ==
    \E s \in DOMAIN probes :
        ProbeStart(s) /\ probes[s].mon = m /\ probes'[s].pc = "check"

\* gocron holds a job of monitor m at the monitor's check_interval, recorded
\* in the scheduler's maps
HasJobAtInterval(m) ==
    /\ m \in DOMAIN jobs /\ m \in DOMAIN intervals
    /\ intervals[m] = monitors[m].check_interval
    /\ \E j \in registered :
        j.id = jobs[m] /\ j.mon = m /\ j.interval = monitors[m].check_interval

\* C25: a monitor that is unpaused and from then on stays unpaused and stored
\* has, under fair scheduling of the refresh ticker and of the jobs, a probe
\* started after the unpause, and from some point on a job running at its
\* check_interval, whether or not a pass removed its job while it was paused
C25_UnpausedMonitorIsProbed ==
    \A m \in Ids :
        <>[]Running(m) =>
            /\ []<><<StartsProbe(m)>>_vars
            /\ <>[](Running(m) /\ HasJobAtInterval(m))

\* a probe is in flight for an unpaused monitor whose first job was removed
\* while it was paused and which has its second job
C25_ProbedAfterJobRestored ==
    \E m \in Ids :
        /\ Running(m) /\ HasJobAtInterval(m)
        /\ jobs[m] > 1
        /\ InFlightOf(m) # {}

Refusable(req) ==
    LET bad == \/ req.body.kind = "garbage"
               \/ req.body.kind = "edit" /\ (req.body.name = "" \/ req.body.url = <<>>)
    IN  \/ req.method = "POST" /\ (bad \/ req.body.kind = "pause")
        \/ req.method # "POST" /\ req.id \notin DOMAIN NumberOf
        \/ req.method # "POST" /\ req.id \in DOMAIN NumberOf
                /\ NumberOf[req.id] \notin DOMAIN monitors
        \/ req.method = "PUT" /\ bad

\* C27: a request answered 400 or 404 leaves the monitors table unchanged,
\* publishes no event, arms no stats publication and starts no probe; and
\* the requests with an unparsable body, without name or url, or with a
\* missing, non-numeric or unknown id are answered 400 or 404
C27_RefusedRequestChangesNothing ==
    [][\A req \in Requests :
        Serve(req) =>
            /\ Refusable(req) => reply'.code \in {400, 404}
            /\ reply'.code \in {400, 404} =>
                /\ monitors' = monitors /\ nextID' = nextID
                /\ casts' = casts /\ castSeq' = castSeq /\ timer' = timer
                /\ probes' = probes]_vars

\* a full edit of a stored monitor without a url was answered 400
C27_EditWithoutUrlRefused ==
    /\ reply.code = 400
    /\ reply.req.method = "PUT" /\ reply.req.body.kind = "edit"
    /\ reply.req.body.url = <<>>
    /\ reply.req.id \in DOMAIN NumberOf
    /\ NumberOf[reply.req.id] \in DOMAIN monitors

\* the probe in slot s takes the step from pc `from` to pc `to`
Steps(s, from, to) == probes[s].pc = from /\ probes'[s].pc = to

\* C28: a probe that has loaded an unpaused monitor and whose insert succeeds
\* inserts one sample and no other: the sample has the status of the
\* classification and the response time 0 when that status is down; when it
\* is up its response time is the one the probe writes to the monitor row
C28_OneSamplePerProbe ==
    [][/\ histories' # histories =>
            \E s \in DOMAIN probes :
                LET h == histories'[Len(histories')] IN
                /\ Steps(s, "stamped", "inserted")
                /\ histories' = Append(histories, h)
                /\ h.monitor_id = probes[s].mon
                /\ h.status = probes[s].status
                /\ h.status \in {"up", "down"}
                /\ h.status = "down" => h.response_time = 0
                /\ h.status = "up" => h.response_time = probes[s].rt
       /\ \A s \in DOMAIN probes :
            /\ Steps(s, "check", "stamped") =>
                    \E o \in Outcomes :
                        /\ probes'[s].status = Classify(probes[s].url, o).status
                        /\ probes'[s].rt = Classify(probes[s].url, o).rt
            /\ (Steps(s, "computed", "patched") /\ probes[s].mon \in DOMAIN monitors) =>
                    /\ monitors'[probes[s].mon].status = probes[s].status
                    /\ monitors'[probes[s].mon].response_time = probes[s].rt]_vars

\* a probe has written status down with the measured response time to the
\* row, and its sample, the only one, has the response time 0
C28_DownSampleHasZero ==
    \E s \in DOMAIN probes :
        /\ probes[s].pc = "patched" /\ probes[s].status = "down" /\ probes[s].rt > 0
        /\ probes[s].mon \in DOMAIN monitors
        /\ monitors[probes[s].mon].response_time = probes[s].rt
        /\ Len(histories) = 1
        /\ histories[1].monitor_id = probes[s].mon
        /\ histories[1].status = "down" /\ histories[1].response_time = 0

\* C29: the write of a probe to the monitor row leaves name, url, icon,
\* check_interval, is_third_party, paused and config_hash (and created_at) as
\* they are stored at the moment of the write, whatever was edited or paused
\* since the probe loaded the row
C29_PatchKeepsConfiguration ==
    [][\A s \in DOMAIN probes :
        (Steps(s, "computed", "patched") /\ probes[s].mon \in DOMAIN monitors) =>
            /\ probes[s].mon \in DOMAIN monitors'
            /\ ConfigOf(monitors'[probes[s].mon]) = ConfigOf(monitors[probes[s].mon])
            /\ monitors'[probes[s].mon].created_at = monitors[probes[s].mon].created_at]_vars

\* a probe has written its result to a row that was edited and paused after
\* the probe had loaded it
C29_PatchedAfterEditAndPause ==
    \E s \in DOMAIN probes :
        /\ probes[s].pc = "patched" /\ probes[s].mon \in DOMAIN monitors
        /\ monitors[probes[s].mon].status = probes[s].status
        /\ monitors[probes[s].mon].status \in {"up", "down"}
        /\ monitors[probes[s].mon].url # probes[s].url
        /\ monitors[probes[s].mon].check_interval = 30
        /\ monitors[probes[s].mon].paused

\* C30: a probe whose sample insert fails goes on as one whose insert
\* succeeds: it computes the uptime from the samples of the last 24 h that
\* are stored (100 for up and 0 for down when there is none), writes its
\* patch to the row and publishes monitor_update
C30_FailedInsertStillPatches ==
    [][\A s \in DOMAIN probes :
        LET m == probes[s].mon IN
        /\ (Steps(s, "stamped", "inserted") /\ histories' = histories) =>
                probes' = [probes EXCEPT ![s].pc = "inserted"]
        /\ Steps(s, "inserted", "computed") =>
                probes'[s].uptime =
                    IF TotalCount(m, now) > 0
                    THEN Percent(UpCount(m, now), TotalCount(m, now))
                    ELSE IF probes[s].status = "up" THEN 10000 ELSE 0
        /\ (Steps(s, "computed", "patched") /\ m \in DOMAIN monitors) =>
                /\ monitors'[m].status = probes[s].status
                /\ monitors'[m].response_time = probes[s].rt
                /\ monitors'[m].uptime = probes[s].uptime
                /\ monitors'[m].last_check = probes[s].last_check
        /\ (Steps(s, "patched", "idle") /\ m \in DOMAIN monitors) =>
                \E g \in casts' \ casts :
                    g.msg.type = "monitor_update" /\ g.msg.mon = m]_vars

\* the insert of a first probe, which found the monitor down, failed: the row
\* shows down with uptime 0 and its monitor_update was published; a later
\* probe found the monitor up and has inserted the only sample
C30_LaterProbeInserts ==
    \E s \in DOMAIN probes :
        /\ probes[s].pc = "inserted" /\ probes[s].status = "up"
        /\ probes[s].mon \in DOMAIN monitors
        /\ monitors[probes[s].mon].status = "down"
        /\ monitors[probes[s].mon].uptime = 0
        /\ castSeq = 2
        /\ Len(histories) = 1 /\ histories[1].status = "up"
        /\ histories[1].monitor_id = probes[s].mon

\* the timers whose function has started, and the callers inside
\* broadcastStatsIfChanged
FiredTimers(d) == {t \in 1..Len(d.timers) : d.timers[t] = "fired"}
Calling(d) == {c \in 1..MaxCallers : d.pc[c] # "idle"}

\* C31: when every call of a burst arrives before the timer armed by the call
\* before it has fired, one stats computation runs for the burst, after its
\* last call: a timer's function starts only while no call is under way, the
\* timer is the one statsDebouncer holds, and no other timer is left armed.
C31_OneTrailingComputation ==
    [][\A t \in FiredTimers(debounce') \ FiredTimers(debounce) :
           /\ Calling(debounce) = {}
           /\ t = debounce.cur
           /\ \A u \in 1..Len(debounce.timers) :
                  u # t => debounce.timers[u] # "armed"]_vars

\* C32: removeClient is idempotent: a call for an id that is not in the
\* subscriber set (removed before, or never added) changes nothing but the
\* count of calls; no channel is closed twice; a removed client is absent
\* from the subscriber set, its channel is closed, and no step enqueues a
\* message for it.
C32_RemoveClientIdempotent ==
    /\ [][\A id \in 1..MaxClients :
             chans'.calls[id] # chans.calls[id] /\ id \notin clients =>
                 /\ UNCHANGED <<clients, queues, casts, nextClient>>
                 /\ chans'.closed = chans.closed
                 /\ chans'.panics = chans.panics]_vars
    /\ [][\A id \in 1..MaxClients :
             chans'.calls[id] # chans.calls[id] /\ id \in clients =>
                 /\ clients' = clients \ {id}
                 /\ id \in chans'.closed]_vars
    /\ [](chans.panics = {})
    /\ [](\A id \in chans.closed : id \notin clients /\ id \notin DOMAIN queues)

\* a client was removed, removeClient was called for it again, and a
\* broadcast that took the lock after that has enqueued its message for the
\* client that is left, and for nobody else
C32_RemovedTwiceThenPublished ==
    \E id \in chans.closed :
        /\ chans.calls[id] = 2
        /\ \E g \in casts : g.pc = "sending" /\ g.sent = clients /\ clients # {}

\* the bucket keys of the batch the job is about to upsert
BatchKeys ==
    {<<r.monitor_id, r.bucket_hour>> :
        r \in BatchRows(retention.aggregatedBuckets, retention.i)}

\* the stored bucket of an aggregated row carries that row's counts
StoredAs(r) ==
    LET k == <<r.monitor_id, r.bucket_hour>>
    IN  /\ k \in DOMAIN buckets
        /\ buckets[k].total_checks = r.total_checks
        /\ buckets[k].up_checks = r.up_checks

\* C33: a batch of bucketOldCheckHistory whose transaction fails writes and
\* changes no bucket; the run goes on with the next batch, or with the DELETE
\* after the last one; a batch that commits stores each of its buckets, so
\* every batch is written whole or not at all.
C33_FailedBatchWritesNothing ==
    [][retention.pc = "batch" /\ retention' # retention =>
          /\ retention'.i = retention.i + BatchSize
          /\ retention'.pc =
                IF retention'.i > Len(retention.aggregatedBuckets)
                THEN "delete" ELSE "batch"
          /\ \/ /\ retention'.upserted = retention.upserted
                /\ buckets' = buckets
             \/ /\ retention'.upserted = retention.upserted \cup BatchKeys
                /\ \A r \in BatchRows(retention.aggregatedBuckets, retention.i) :
                       StoredAs(r)'
                /\ \A k \in DOMAIN buckets \ BatchKeys :
                       k \in DOMAIN buckets' /\ buckets'[k] = buckets[k]]_vars

\* the first batch, of two buckets, failed and wrote nothing, and the second
\* batch of the run was committed; the run has ended
C33_SecondBatchCommitted ==
    /\ retention.pc = "idle" /\ retention.runs = 1 /\ retention.failed
    /\ Len(retention.aggregatedBuckets) = BatchSize + 1
    /\ Cardinality(DOMAIN buckets) = 1
    /\ retention.upserted = DOMAIN buckets

\* the samples of check_histories, as the run read it, that fall into the
\* hour of bucket key k
SamplesOfHour(k) ==
    {i \in 1..Len(retention.table) : KeyOf(retention.table[i]) = k}

\* C34: after a retention run every bucket the run upserted counts all the
\* samples of its monitor and hour: total_checks is their number and
\* up_checks the number of those with status up, and there is one bucket per
\* monitor and hour.
C34_BucketsCountWholeHour ==
    retention.pc = "idle" /\ retention.runs > 0 =>
        \A k \in retention.upserted :
            /\ k \in DOMAIN buckets
            /\ buckets[k].total_checks = Cardinality(SamplesOfHour(k))
            /\ buckets[k].up_checks =
                 Cardinality({i \in SamplesOfHour(k) : retention.table[i].status = "up"})

\* C35: broadcastMessage never sends on a Send channel that removeClient has
\* closed: no broadcast that is sending has a closed channel left to send
\* on, no send has hit a closed channel, and a step that enqueues a message
\* enqueues it for a client whose channel is open.
C35_NoSendOnClosedQueue ==
    /\ [](\A g \in casts : g.pc = "sending" => g.rest \cap chans.closed = {})
    /\ [](\A p \in chans.panics : p[1] # "send")
    /\ [][\A g \in casts, h \in casts' :
             h.msg = g.msg /\ h.sent # g.sent =>
                 (h.sent \ g.sent) \cap chans.closed = {}]_vars

\* while one broadcast is sending and has enqueued its message for the second
\* client, the first client has left and the next broadcast waits for the lock
C35_SentWhileAnotherLeft ==
    /\ 1 \in chans.closed
    /\ \E g \in casts : g.pc = "sending" /\ 2 \in g.sent
    /\ \E h \in casts : h.pc = "spawned"

\* no probe, no PUT handler and no timer callback is under way, no create
\* handler has its publication left, and the debounce timer is not armed
AllFinished ==
    /\ \A s \in DOMAIN probes : probes[s].pc = "idle"
    /\ \A s \in DOMAIN puts : puts[s].pc = "idle"
    /\ \A k \in DOMAIN callbacks : callbacks[k].pc = "idle"
    /\ posts = {}
    /\ timer = "off"

\* C36: once all probes, API requests and timer callbacks have finished and
\* a callback has recorded stats, lastStats holds getStats of the store as it
\* is, also after callbacks that computed their stats concurrently.
C36_LastStatsAreFinal ==
    AllFinished /\ lastStats.valid => ~Changed(lastStats, GetStats(now))

\* C37: no monitor_update of a monitor is enqueued for a subscriber for which
\* the monitor_deleted of that monitor has been enqueued: while the broadcast
\* of the monitor_deleted has sent to a subscriber, no broadcast of a
\* monitor_update of the same monitor sends to that subscriber.
C37_NoUpdateAfterDeleted ==
    [][\A h \in casts, g \in casts, g2 \in casts' :
          /\ h.msg.type = "monitor_deleted"
          /\ g.msg.type = "monitor_update" /\ g.msg.mon = h.msg.mon
          /\ g2.msg = g.msg
          => (g2.sent \ g.sent) \cap h.sent = {}]_vars

\* C38: every raw sample that the DELETE of a retention run removes because
\* it is older than 7 days has, at that moment, a stored bucket of its
\* monitor and hour that counts at least one check.
C38_DeletedSamplesAreBucketed ==
    [][retention.pc = "delete" /\ histories' # histories =>
          \A i \in 1..Len(histories) :
              histories[i].created_at < retention.sevenDaysAgo =>
                  /\ KeyOf(histories[i]) \in DOMAIN buckets
                  /\ buckets[KeyOf(histories[i])].total_checks > 0]_vars

\* goroutine g holds ms.mu, for writing or for reading
Holds(g) == locks.mu = g \/ g \in locks.readers

\* C39: every refreshScheduler pass ends, with the mutex released; no
\* goroutine requests the mutex while it holds it; the mutex is held only
\* inside the short sections between a Lock and its Unlock, never while a
\* job is created (NewJob) and never by a goroutine that runs a probe; and
\* every goroutine inside addMonitorJob or removeMonitorJob returns.
C39_PassEndsUnlocked ==
    /\ [](\A g \in Goroutines :
            /\ locks.pc[g] \in DOMAIN Held \cup {"rlock_read"} => ~Holds(g)
            /\ locks.pc[g] \in {"idle", "loop", "sleep"} => ~Holds(g)
            /\ Holds(g) => locks.pc[g] \in {"ids", "paused", "read", "remove",
                                             "set", "rm", "sweep"})
    /\ [][nextJob' # nextJob \/ (\E s \in DOMAIN probes : probes'[s] # probes[s])
            => locks'.mu = locks.mu /\ locks'.readers = locks.readers
               /\ \A g \in Goroutines :
                      locks'.pc[g] # locks.pc[g] => ~Holds(g)]_vars
    /\ \A g \in Goroutines : (locks.pc[g] # "idle") ~> (locks.pc[g] = "idle")

\* the removal loop of a pass has released the mutex and called
\* removeMonitorJob for a job whose monitor is gone, while the other goroutine
\* holds the mutex inside addMonitorJob
C39_SweepWaitsForCaller ==
    /\ locks.pc[1] = "lock_rm" /\ locks.back[1] = "lock_sweep"
    /\ locks.mu = 2

\* C40: a probe never adds a row to the monitors table, and a monitor that
\* was deleted stays deleted: the set of monitor ids grows only by an API
\* create, which takes the next id, or by the YAML reconciler, and shrinks
\* only by an API delete or by the reconciler; no step of a probe and no
\* other handler changes it.
C40_IdsChangeByCreateDeleteSync ==
    [][DOMAIN monitors' # DOMAIN monitors =>
          \/ sync' # sync
          \/ /\ nextID' = nextID + 1
             /\ DOMAIN monitors' = DOMAIN monitors \cup {nextID}
          \/ /\ \E id \in DOMAIN monitors : DOMAIN monitors' = DOMAIN monitors \ {id}
             /\ probes' = probes /\ puts' = puts]_vars

====
